---- MODULE Spec2Model ----
(***************************************************************************)
(* A model of the 8ball autotrader bots: the position store (the           *)
(* *_trade_manager.ts modules), the Confidence Oracle parsing, the exit    *)
(* checks and the polling cycles of the bots.                              *)
(*                                                                         *)
(* Prices and amounts are integers: a percentage comparison                *)
(* (cur - entry) / entry >= t is stated as the cross-multiplied integer    *)
(* inequality, which is the same comparison for entry > 0.                 *)
(***************************************************************************)
EXTENDS Integers, Sequences, FiniteSets, TLC

VARIABLES
    variant,      \* which trade manager module is loaded
    openTrades,   \* the module-level `let openTrades` array
    file,         \* the backing JSON file: missing, unreadable text, or the text of a list
    faults,       \* number of I/O failures injected so far
    lastOp,       \* history: the last store operation, its argument and the list before it
    input,        \* the arguments of the function under study
    output,       \* its result, once it has been applied
    bot,          \* which bot process runs
    cfg,          \* its environment variables
    pc,           \* where the process is: main, closeAll, idle, monitor, gate, scan, execute
    today,        \* the calendar day
    snap,         \* the array a monitoring pass (or the close-all loop) iterates
    idx,          \* the position of the loop at hand
    passLog,      \* history: the outcome of each iteration of the pass
    passState,    \* history: none, running, done, aborted
    retry,        \* history: ids whose closing trade threw in the previous pass
    cands,        \* the analysed tokens, then the opportunities handed to executeTrades
    capital,      \* the USDC available to executeTrades
    lastExec,     \* history: the trade this step submitted to the Execution Gateway
    cyc           \* history of the cycle: market trend, pass finished, count at the gate,
                  \* oracle calls, symbols the analysis found no opportunity in, opens

storeVars == <<variant, openTrades, file, faults, lastOp>>

fnVars == <<input, output>>

botVars == <<bot, cfg, pc, today, snap, idx, passLog, passState, retry,
             cands, capital, lastExec, cyc>>

vars == <<variant, openTrades, file, faults, lastOp, input, output,
          bot, cfg, pc, today, snap, idx, passLog, passState, retry,
          cands, capital, lastExec, cyc>>

(***************************************************************************)
(* Bounds of the model.                                                    *)
(***************************************************************************)
MaxId == 2
MaxStore == 3
MaxFaults == 1
MaxRun == 3
MaxPrice == 320
MaxDay == 1

(***************************************************************************)
(* The position store.                                                     *)
(***************************************************************************)
\* The trade manager modules of the repository.
StoreVariants == {"intraday", "trade", "meme", "solana"}

Symbols == {"WETH", "SOL"}

EntryPrice == 100

\* The OpenTrade records the bots hand to addOpenTrade: the fields the bots
\* read back (highWaterMark is optional and set later by updateOpenTrade).
OpenTrade == [id : 1..MaxId, toTokenSymbol : Symbols, price : {EntryPrice}]

\* trend_pullback_trade_manager.ts is imported by the trend/pullback bot but
\* is not among the sources: it is taken to behave as the Position Store of
\* the design document does.
DescribedStores == {"trend"}

\* Which managers reset the list on a read error other than ENOENT, write the
\* empty list back on ENOENT, and skip the write when removeOpenTrade finds
\* nothing: intraday_trade_manager.ts and trade_manager.ts do, the two
\* memecoin managers do not.
ResetsOnReadError(v) == v \in {"intraday", "trade"} \cup DescribedStores

WritesBackOnMissing(v) == v \in {"intraday", "trade"} \cup DescribedStores

WritesOnlyWhenRemoved(v) == v \in {"intraday", "trade"} \cup DescribedStores

\* The file does not exist (ENOENT), or holds text that is not JSON.
Absent == [kind |-> "absent", data |-> <<>>]

Corrupt == [kind |-> "corrupt", data |-> <<>>]

\* JSON.stringify(openTrades, null, 2): the text holds the records in order,
\* a record's fields being those that are present.
Stringify(trades) == [kind |-> "json", data |-> [i \in 1..Len(trades) |-> trades[i]]]

\* JSON.parse(data) of a text written by Stringify.
Parse(f) == [i \in 1..Len(f.data) |-> f.data[i]]

\* fs.writeFile: it succeeds, or fails before touching the file, or fails
\* after truncating it.
WriteOutcomes == {"ok", "untouched", "partial"}

WriteFile(f, trades, w) ==
    CASE w = "ok" -> Stringify(trades)
      [] w = "untouched" -> f
      [] OTHER -> Corrupt

\* saveOpenTrades: whether the write error reaches the caller of the operation
\* (memecoin_trade_manager.ts has no try/catch around the write).
SaveThrows(v, w) == w # "ok" /\ v = "meme"

\* openTrades.push(trade)
PushTradeTwice(trades, trade) == Append(Append(trades, trade), trade)

PushTrade(trades, trade) == Append(trades, trade)

\* openTrades.filter(trade => trade.id !== tradeId)
FilterOut(trades, tradeId) == SelectSeq(trades, LAMBDA t : t.id # tradeId)

\* getOpenTrades(): the array itself, or a copy of it (memecoin manager).
getOpenTrades == openTrades

HasId(trades, tradeId) == \E i \in 1..Len(trades) : trades[i].id = tradeId

Count(trades, trade) == Cardinality({i \in 1..Len(trades) : trades[i] = trade})

\* the updates alone, the fields of the old record dropped
UpdatesOnly(old, updates) == updates

\* { ...openTrades[tradeIndex], ...updates }
Merge(old, updates) ==
    [k \in DOMAIN old \cup DOMAIN updates |->
        IF k \in DOMAIN updates THEN updates[k] ELSE old[k]]

\* openTrades.findIndex(trade => trade.id === tradeId), 0 for -1
FindIndex(trades, tradeId) ==
    IF HasId(trades, tradeId)
    THEN CHOOSE i \in 1..Len(trades) :
            /\ trades[i].id = tradeId
            /\ \A j \in 1..(i - 1) : trades[j].id # tradeId
    ELSE 0

Fault(w) == IF w = "ok" THEN 0 ELSE 1

\* no function has been called
NoCall == [fn |-> "none"]

NoOp == [op |-> "none", trade |-> <<>>, id |-> 0, pre |-> <<>>, threw |-> FALSE]

\* The state of a trade manager module: its list, its file, and the record of
\* the operation that produced it.  The operations map a state to the next.
Store(trades, f, n, op) == [trades |-> trades, file |-> f, faults |-> n, op |-> op]

Current == Store(openTrades, file, faults, NoOp)

\* addOpenTrade(trade)
addOpenTrade(st, v, trade, w) ==
    LET pushed == PushTrade(st.trades, trade)
    IN  Store(pushed, WriteFile(st.file, pushed, w), st.faults + Fault(w),
              [op |-> "add", trade |-> trade, id |-> trade.id,
               pre |-> st.trades, threw |-> SaveThrows(v, w)])

\* removeOpenTrade(tradeId): the managers with a found-check write only when a
\* record was removed; the memecoin and solana managers always write.
removeOpenTrade(st, v, tradeId, w) ==
    LET kept == FilterOut(st.trades, tradeId)
        writes == ~WritesOnlyWhenRemoved(v) \/ Len(kept) < Len(st.trades)
        ww == IF writes THEN w ELSE "ok"
    IN  Store(kept, IF writes THEN WriteFile(st.file, kept, ww) ELSE st.file,
              st.faults + Fault(ww),
              [op |-> "remove", trade |-> <<>>, id |-> tradeId,
               pre |-> st.trades, threw |-> SaveThrows(v, ww)])

\* updateOpenTrade(tradeId, updates), intraday manager only (the record of
\* the operation keeps the updates in its trade field)
updateOpenTrade(st, v, tradeId, updates, w) ==
    LET idx0 == FindIndex(st.trades, tradeId)
        ww == IF idx0 # 0 THEN w ELSE "ok"
        merged == IF idx0 # 0
                  THEN [st.trades EXCEPT ![idx0] = Merge(st.trades[idx0], updates)]
                  ELSE st.trades
    IN  Store(merged, IF idx0 # 0 THEN WriteFile(st.file, merged, ww) ELSE st.file,
              st.faults + Fault(ww),
              [op |-> "update", trade |-> updates, id |-> tradeId,
               pre |-> st.trades, threw |-> FALSE])

\* a load that appends what it reads to the list instead of replacing the list
loadOpenTradesAppending(st, v, w) ==
    Store(IF st.file.kind = "json" THEN st.trades \o Parse(st.file) ELSE st.trades,
          st.file, st.faults,
          [op |-> "load", trade |-> <<>>, id |-> 0, pre |-> st.trades, threw |-> FALSE])

\* loadOpenTrades(): read and parse the file; ENOENT resets the list (and the
\* intraday and trade managers write the empty list back); any other error
\* resets the list in the intraday and trade managers and leaves it in the others.
loadOpenTrades(st, v, w) ==
    LET writesBack == st.file.kind = "absent" /\ WritesBackOnMissing(v)
        ww == IF writesBack THEN w ELSE "ok"
        loaded == CASE st.file.kind = "absent" -> <<>>
                    [] st.file.kind = "corrupt" ->
                          IF ResetsOnReadError(v) THEN <<>> ELSE st.trades
                    [] OTHER -> Parse(st.file)
    IN  Store(loaded, IF writesBack THEN WriteFile(st.file, <<>>, ww) ELSE st.file,
              st.faults + Fault(ww),
              [op |-> "load", trade |-> <<>>, id |-> 0,
               pre |-> st.trades, threw |-> FALSE])

\* the module state after an operation (at most MaxFaults writes fail)
Commit(st) ==
    /\ st.faults <= MaxFaults
    /\ openTrades' = st.trades
    /\ file' = st.file
    /\ faults' = st.faults
    /\ lastOp' = st.op
    /\ UNCHANGED variant

(***************************************************************************)
(* Values shared by the specifications of the bots.                        *)
(***************************************************************************)
\* recall.getPrice / dexscreener.getPairPrice: the request throws, or answers
\* without a usable price, or answers a price
Throws == [kind |-> "throw", price |-> 0]

NoPrice == [kind |-> "none", price |-> 0]

Quote(p) == [kind |-> "price", price |-> p]

\* no trade was submitted in this step
NoExec == [kind |-> "none", symbol |-> "", id |-> 0, ok |-> FALSE,
           isOpportunity |-> FALSE, hasConfidence |-> FALSE, aiConfidence |-> 0]

\* what a cycle has done so far
NoCycle == [uptrend |-> FALSE, monitored |-> FALSE, gated |-> FALSE, gateCount |-> 0,
            analysed |-> FALSE, askedOracle |-> FALSE, vetoed |-> {},
            opened |-> {}, openThrew |-> {}, filled |-> {},
            balance |-> 0, spent |-> 0]

\* no bot process (the store and the functions are studied on their own)
NoBot ==
    /\ bot = "none"
    /\ cfg = [override |-> FALSE, env |-> <<>>, closeAll |-> FALSE, trading |-> FALSE]
    /\ pc = "off" /\ today = 1 /\ snap = <<>> /\ idx = 0
    /\ passLog = <<>> /\ passState = "none" /\ retry = {} /\ cands = <<>>
    /\ capital = 0 /\ lastExec = NoExec /\ cyc = NoCycle

(***************************************************************************)
(* The Confidence Oracle: getTradeConfidence / getRebalanceConfidence.     *)
(* A response text is a sequence of tokens: the markup the patterns look   *)
(* for, single digits and the dot, a blank and a word.  Numbers are scaled *)
(* by Scale, so 0.42 is 420.                                               *)
(***************************************************************************)
Scale == 1000

\* parseFloat's NaN (no number parsed by [0-9.]+ is negative).
NaN == -1

Digits == {"0", "2", "4", "5", "7", "8"}

DigitVal(t) ==
    CASE t = "0" -> 0 [] t = "2" -> 2 [] t = "4" -> 4
      [] t = "5" -> 5 [] t = "7" -> 7 [] OTHER -> 8

\* the character class [0-9.]
IsNumChar(t) == t \in Digits \cup {"."}

\* the number of digits of s from position i on
RECURSIVE DigitRun(_, _)
DigitRun(s, i) ==
    IF i <= Len(s) /\ s[i] \in Digits THEN 1 + DigitRun(s, i + 1) ELSE 0

\* the value of the n digits of s from position i on, as an integer
RECURSIVE IntVal(_, _, _)
IntVal(s, i, n) ==
    IF n = 0 THEN 0 ELSE IntVal(s, i, n - 1) * 10 + DigitVal(s[i + n - 1])

\* the value of the digits of s from position i on as a fraction, times unit
RECURSIVE FracVal(_, _, _, _)
FracVal(s, i, n, unit) ==
    IF n = 0 \/ unit = 0 THEN 0
    ELSE DigitVal(s[i]) * (unit \div 10) + FracVal(s, i + 1, n - 1, unit \div 10)

RECURSIVE SkipBlanks(_)
SkipBlanks(s) == IF s # <<>> /\ Head(s) = " " THEN SkipBlanks(Tail(s)) ELSE s

\* parseFloat(text): leading blanks are skipped, then the longest prefix
\* digits [. digits] is the number; NaN when that prefix holds no digit.
parseFloat(text) ==
    LET s == SkipBlanks(text)
        n1 == DigitRun(s, 1)
        dot == n1 < Len(s) /\ s[n1 + 1] = "."
        n2 == IF dot THEN DigitRun(s, n1 + 2) ELSE 0
    IN  IF n1 + n2 = 0 THEN NaN
        ELSE IntVal(s, 1, n1) * Scale + FracVal(s, n1 + 2, n2, Scale)

\* text.match(/open([0-9.]+)close/): the pattern matches at i up to j
MatchAt(text, i, j, open, close) ==
    /\ i >= 1 /\ j <= Len(text) /\ j >= i + 2
    /\ text[i] = open /\ text[j] = close
    /\ \A k \in (i + 1)..(j - 1) : IsNumChar(text[k])

Matches(text, open, close) ==
    {m \in (1..Len(text)) \X (1..Len(text)) : MatchAt(text, m[1], m[2], open, close)}

\* the first match (leftmost), as <<i, j>>; <<0, 0>> for null
Match(text, open, close) ==
    IF Matches(text, open, close) = {} THEN <<0, 0>>
    ELSE CHOOSE m \in Matches(text, open, close) :
            \A o \in Matches(text, open, close) : m[1] <= o[1]

\* scoreMatch[1]
Group(text, m) == SubSeq(text, m[1] + 1, m[2] - 1)

RECURSIVE TrimEnd(_)
TrimEnd(s) == IF s # <<>> /\ s[Len(s)] = " " THEN TrimEnd(SubSeq(s, 1, Len(s) - 1)) ELSE s

\* aiResponse.replace(/<score>([0-9.]+)<\/score>/, '').trim()
StripTag(text) ==
    LET m == Match(text, "<score>", "</score>")
        rest == IF m = <<0, 0>> THEN text
                ELSE SubSeq(text, 1, m[1] - 1) \o SubSeq(text, m[2] + 1, Len(text))
    IN  TrimEnd(SkipBlanks(rest))

\* The confidence functions of the repository: the trend/pullback bot, the
\* neutral/downtrend bot, the momentum bot, the intraday bot, the initial
\* portfolio setup script and the first bot (bot.ts).
OracleFns == {"trend", "neutral", "momentum", "intraday", "setup", "simple"}

\* the fields of the candidate each function dereferences while it builds
\* the prompt, before its try block
PromptFields(fn) ==
    CASE fn \in {"trend", "neutral"} -> {"symbol", "current_price", "lastEma"}
      [] fn = "momentum" -> {"symbol", "current_price", "indicators", "bollingerBands",
                             "total_volume", "market_cap"}
      [] fn = "intraday" -> {"symbol", "current_price", "indicators"}
      [] fn = "setup" -> {"symbol", "type", "amountUsd", "tokenInfo", "currentPrice"}
      [] OTHER -> {"symbol", "price_change_percentage_1h_in_currency",
                   "total_volume", "market_cap"}

\* the fields of the candidate objects the callers of each function build
CallerFields(fn) ==
    CASE fn = "trend" -> {"symbol", "current_price", "address", "isOpportunity", "lastEma"}
      [] fn = "neutral" -> {"symbol", "current_price", "address", "isOpportunity",
                            "currentPrice"}
      [] fn = "momentum" -> {"symbol", "current_price", "indicators", "bollingerBands",
                             "total_volume", "market_cap", "isOpportunity"}
      [] fn = "intraday" -> {"symbol", "current_price", "indicators", "isOpportunity"}
      [] fn = "setup" -> {"symbol", "type", "amountUsd", "tokenInfo", "currentPrice"}
      [] OTHER -> {"symbol", "price_change_percentage_1h_in_currency",
                   "total_volume", "market_cap"}

\* building the prompt throws a TypeError when a dereferenced field is undefined
PromptThrows(fn, fields) == ~(PromptFields(fn) \subseteq fields)

\* the closing delimiter each function's pattern looks for
CloseTag(fn) == IF fn \in {"trend", "neutral", "momentum"} THEN "</score>" ELSE "<!--/score-->"

HasFallback(fn) == fn \in {"trend", "neutral", "momentum"}

ReturnsReason(fn) == fn \in {"trend", "neutral"}

Result(threw, confidence, hasReason, reason) ==
    [threw |-> threw, confidence |-> confidence, hasReason |-> hasReason, reason |-> reason]

Zero(fn, why) == Result(FALSE, 0, ReturnsReason(fn), IF ReturnsReason(fn) THEN <<why>> ELSE <<>>)

\* the parsing of result.response inside the try block
ParseResponse(fn, text) ==
    IF fn = "simple"
    THEN LET c == parseFloat(text) IN Result(FALSE, IF c = NaN THEN 0 ELSE c, FALSE, <<>>)
    ELSE
    LET m1 == Match(text, "<score>", CloseTag(fn))
        m2 == Match(text, "confidence score of **", "**")
        confidence ==
            IF m1 # <<0, 0>> THEN parseFloat(Group(text, m1))
            ELSE IF HasFallback(fn) /\ m2 # <<0, 0>> THEN parseFloat(Group(text, m2))
            ELSE 0
    IN  Result(FALSE, confidence, ReturnsReason(fn),
               IF ReturnsReason(fn) THEN StripTag(text) ELSE <<>>)

\* fetch: the request fails, or the answer is not 2xx, or it is
HttpOutcomes == {"ok", "non2xx", "network"}

\* the body of the answer: not JSON, JSON without a response string, or a text
NoJson == [kind |-> "nojson", text |-> <<>>]

NoResponse == [kind |-> "noresponse", text |-> <<>>]

Text(t) == [kind |-> "text", text |-> t]

\* getTradeConfidence / getRebalanceConfidence of bot fn, called with a
\* candidate holding the given fields
getTradeConfidence(fn, fields, http, body) ==
    IF PromptThrows(fn, fields) THEN Result(TRUE, 0, FALSE, <<>>)
    ELSE IF http = "network" THEN Zero(fn, "Exception caught during confidence check.")
    ELSE IF http = "non2xx" THEN Zero(fn, "Error fetching confidence.")
    ELSE IF body.kind = "nojson" THEN Zero(fn, "Exception caught during confidence check.")
    ELSE IF body.kind = "noresponse"
         THEN IF fn = "simple" THEN Result(FALSE, 0, FALSE, <<>>)
              ELSE Zero(fn, "Exception caught during confidence check.")
    ELSE ParseResponse(fn, body.text)

\* The responses the oracle is studied on: an optional lead, an optional
\* number with or without delimiters, an optional rest.
RunChars == {"0", "2", "4", "."}

RECURSIVE Runs(_)
Runs(n) ==
    IF n = 0 THEN {<<>>}
    ELSE Runs(n - 1) \cup {Append(r, c) : r \in Runs(n - 1), c \in RunChars}

NumRuns == (Runs(MaxRun) \ {<<>>}) \cup {<<"0", ".", "4", "2">>}

Sentence == <<"confidence score of **", "0", ".", "8", "**">>

Leads == {<<>>, <<"looks risky", " ">>}

Rests == {<<>>, <<" ", "looks risky">>, <<" ">> \o Sentence}

Tagged ==
    {<<>>} \cup NumRuns
    \cup {<<"<score>">> \o n : n \in NumRuns}
    \cup {<<"<score>">> \o n \o <<c>> : n \in NumRuns, c \in {"</score>", "<!--/score-->"}}

Responses == {l \o t \o r : l \in Leads, t \in Tagged, r \in Rests}

OracleInputs ==
    [fn : OracleFns, http : {"ok"}, body : {Text(t) : t \in Responses}]
    \cup [fn : OracleFns, http : HttpOutcomes, body : {NoJson, NoResponse}]

InitOracle ==
    /\ variant = "intraday"
    /\ openTrades = <<>>
    /\ file = Absent
    /\ faults = 0
    /\ lastOp = NoOp
    /\ input \in OracleInputs
    /\ output = NoCall
    /\ NoBot

\* a caller awaits the confidence of a candidate it has built
CallOracle ==
    /\ output = NoCall
    /\ output' = getTradeConfidence(input.fn, CallerFields(input.fn), input.http, input.body)
    /\ UNCHANGED <<storeVars, botVars, input>>

SpecOracle == InitOracle /\ [][CallOracle]_vars

(***************************************************************************)
(* Exit conditions of the monitoring passes.                               *)
(***************************************************************************)
\* The bots: the intraday bot, the trend/pullback bot, the momentum bot
\* (with trade_manager.ts), the Solana memecoin bot, the meme coin bot, and
\* the first bot (bot.ts), which keeps no position store.
Bots == {"intraday", "trend", "momentum", "solana", "meme"}

PercentBots == {"simple", "momentum", "solana", "meme"}

\* fractions are kept in hundredths of a percent
BasisPoints == 10000

\* strategyParameters.takeProfit, TAKE_PROFIT_PERCENTAGE, TAKE_PROFIT_PERCENT
takeProfit(b) ==
    CASE b = "simple" -> 1500
      [] b = "momentum" -> 100
      [] b = "solana" -> 20000
      [] OTHER -> 90000

\* strategyParameters.stopLoss, STOP_LOSS_PERCENTAGE, -STOP_LOSS_PERCENT
stopLoss(b) ==
    CASE b = "simple" -> 500
      [] b = "momentum" -> 50
      [] OTHER -> 5000

\* pnl = (currentPrice - entryPrice) / entryPrice; pnl >= takeProfit
takeProfitHitStrict(b, entryPrice, currentPrice) ==
    (currentPrice - entryPrice) * BasisPoints > takeProfit(b) * entryPrice

takeProfitHit(b, entryPrice, currentPrice) ==
    (currentPrice - entryPrice) * BasisPoints >= takeProfit(b) * entryPrice

\* pnl <= -stopLoss
stopLossHit(b, entryPrice, currentPrice) ==
    (currentPrice - entryPrice) * BasisPoints <= (0 - stopLoss(b)) * entryPrice

\* tokenTakeProfitDollars, in tenths of a dollar (as every price of a
\* trend/pullback position)
tokenTakeProfitDollars(symbol) == IF symbol = "WETH" THEN 500 ELSE 3

\* dollarPnl >= requiredTakeProfit
dollarTakeProfitHit(symbol, entryPrice, currentPrice) ==
    currentPrice - entryPrice >= tokenTakeProfitDollars(symbol)

\* strategyParameters.trailingStopLoss, in thousandths
trailingStopLoss == 15

\* currentPrice <= highWaterMark * (1 - trailingStopLoss)
trailingStopHit(highWaterMark, currentPrice) ==
    currentPrice * 1000 <= highWaterMark * (1000 - trailingStopLoss)

\* the decision of one iteration of monitorOpenPositions of a percentage bot
ExitDecision(b, entryPrice, currentPrice) ==
    [stopLossHit |-> stopLossHit(b, entryPrice, currentPrice),
     takeProfitHit |-> takeProfitHit(b, entryPrice, currentPrice),
     close |-> stopLossHit(b, entryPrice, currentPrice)
               \/ takeProfitHit(b, entryPrice, currentPrice)]

ExitInputs ==
    [fn : {"exit"}, bot : PercentBots, entryPrice : {20, 100},
     currentPrice : 0..MaxPrice]

InitExit ==
    /\ variant = "intraday"
    /\ openTrades = <<>>
    /\ file = Absent
    /\ faults = 0
    /\ lastOp = NoOp
    /\ input \in ExitInputs
    /\ output = NoCall
    /\ NoBot

\* the monitoring pass evaluates one position at the current price
CheckExit ==
    /\ output = NoCall
    /\ output' = ExitDecision(input.bot, input.entryPrice, input.currentPrice)
    /\ UNCHANGED <<storeVars, botVars, input>>

SpecExit == InitExit /\ [][CheckExit]_vars

\* ---------------------------------------------------------------------------
\* Technical indicators (momentum bot, combined bot, trend bot, intraday bot).
\* The code computes in IEEE doubles; the model computes the same expressions
\* in exact rational arithmetic, a number being a pair <<n, d>> in lowest
\* terms with d > 0.  Rounding of the doubles is outside the model.
\* ---------------------------------------------------------------------------
MaxSeries == 4
MaxPeriod == 3
MaxQuote == 3

RECURSIVE Gcd(_, _)
Gcd(a, b) == IF b = 0 THEN a ELSE Gcd(b, a % b)

Rat(n, d) ==
    LET s == IF d < 0 THEN -1 ELSE 1
        m == IF n < 0 THEN -n ELSE n
        g == Gcd(m, s * d)
    IN  <<(s * n) \div g, (s * d) \div g>>

Num(n) == <<n, 1>>
RPlus(a, b) == Rat(a[1] * b[2] + b[1] * a[2], a[2] * b[2])
RMinus(a, b) == Rat(a[1] * b[2] - b[1] * a[2], a[2] * b[2])
RTimes(a, b) == Rat(a[1] * b[1], a[2] * b[2])
ROver(a, b) == Rat(a[1] * b[2], a[2] * b[1])
RLeq(a, b) == a[1] * b[2] <= b[1] * a[2]
RAbs(a) == IF a[1] < 0 THEN <<-a[1], a[2]>> ELSE a
RMax(a, b) == IF RLeq(b, a) THEN a ELSE b

RECURSIVE RSum(_)
RSum(s) == IF s = <<>> THEN Num(0) ELSE RPlus(s[1], RSum(Tail(s)))

\* the values a call hands back: an array, null, a number or an object
ArrayOf(s) == [fn |-> "indicator", kind |-> "array", values |-> s, signal |-> <<>>]
Null == [fn |-> "indicator", kind |-> "null", values |-> <<>>, signal |-> <<>>]
NumberOf(x) == [fn |-> "indicator", kind |-> "number", values |-> <<x>>, signal |-> <<>>]

calculateSMAFromStart(data, period) ==
    IF Len(data) < period THEN <<>>
    ELSE [j \in 1..(Len(data) - period + 1) |->
            ROver(RSum(SubSeq(data, 1, j + period - 1)), Num(period))]

calculateSMA(data, period) ==
    IF Len(data) < period THEN <<>>
    ELSE [j \in 1..(Len(data) - period + 1) |->
            ROver(RSum(SubSeq(data, j, j + period - 1)), Num(period))]

\* emaArray after the loop has reached index i (1-based), smoothing factor k
RECURSIVE emaArray(_, _, _)
emaArray(prices, k, i) ==
    IF i = 1 THEN <<prices[1]>>
    ELSE LET prev == emaArray(prices, k, i - 1)
         IN  Append(prev, RPlus(RTimes(prices[i], k),
                                RTimes(prev[i - 1], RMinus(Num(1), k))))

calculateEMAUnguarded(prices, period) ==
    IF prices = <<>> THEN <<>>
    ELSE emaArray(prices, ROver(Num(2), Num(period + 1)), Len(prices))

calculateEMAWilder(prices, period) ==
    IF Len(prices) < period THEN <<>>
    ELSE emaArray(prices, ROver(Num(1), Num(period)), Len(prices))

calculateEMAFromPeriod(prices, period) ==
    IF Len(prices) < period THEN <<>>
    ELSE SubSeq(emaArray(prices, ROver(Num(2), Num(period + 1)), Len(prices)),
                period, Len(prices))

calculateEMA(prices, period) ==
    IF Len(prices) < period THEN <<>>
    ELSE emaArray(prices, ROver(Num(2), Num(period + 1)), Len(prices))

rsiValue(avgGain, avgLoss) ==
    LET rs == IF avgLoss = Num(0) THEN Num(100) ELSE ROver(avgGain, avgLoss)
    IN  RMinus(Num(100), ROver(Num(100), RPlus(Num(1), rs)))

\* avgGain, avgLoss and rsiValues once the price at 0-based index i is consumed
RECURSIVE rsiState(_, _, _)
rsiState(prices, period, i) ==
    IF i = period
    THEN LET change == [j \in 1..period |-> RMinus(prices[j + 1], prices[j])]
             gains == [j \in 1..period |->
                          IF change[j][1] > 0 THEN change[j] ELSE Num(0)]
             losses == [j \in 1..period |->
                          IF change[j][1] > 0 THEN Num(0)
                          ELSE RMinus(Num(0), change[j])]
             avgGain == ROver(RSum(gains), Num(period))
             avgLoss == ROver(RSum(losses), Num(period))
         IN  [avgGain |-> avgGain, avgLoss |-> avgLoss,
              rsiValues |-> <<rsiValue(avgGain, avgLoss)>>]
    ELSE LET prev == rsiState(prices, period, i - 1)
             change == RMinus(prices[i + 1], prices[i])
             gain == IF change[1] > 0 THEN change ELSE Num(0)
             loss == IF change[1] < 0 THEN RMinus(Num(0), change) ELSE Num(0)
             avgGain == ROver(RPlus(RTimes(prev.avgGain, Num(period - 1)), gain),
                              Num(period))
             avgLoss == ROver(RPlus(RTimes(prev.avgLoss, Num(period - 1)), loss),
                              Num(period))
         IN  [avgGain |-> avgGain, avgLoss |-> avgLoss,
              rsiValues |-> Append(prev.rsiValues, rsiValue(avgGain, avgLoss))]

calculateRSISkippingSeed(prices, period) ==
    IF Len(prices) <= period THEN <<>>
    ELSE Tail(rsiState(prices, period, Len(prices) - 1).rsiValues)

calculateRSI(prices, period) ==
    IF Len(prices) <= period THEN <<>>
    ELSE rsiState(prices, period, Len(prices) - 1).rsiValues

\* the bands are middle +/- stdDev * sqrt(variance); the model keeps the
\* middle band and the variance, the square root being irrational
calculateBollingerBands(prices, period) ==
    IF Len(prices) < period THEN Null
    ELSE LET sma == calculateSMA(prices, period)
             middleBand == sma[Len(sma)]
             slice == SubSeq(prices, Len(prices) - period + 1, Len(prices))
             squares == [j \in 1..period |->
                            RTimes(RMinus(slice[j], middleBand),
                                   RMinus(slice[j], middleBand))]
         IN  IF middleBand = Num(0) THEN Null
             ELSE [fn |-> "indicator", kind |-> "object",
                   values |-> <<middleBand, ROver(RSum(squares), Num(period))>>,
                   signal |-> <<>>]

\* Array.prototype.slice(start): a negative start counts from the end
slice(s, start) ==
    LET from == IF start < 0
                THEN (IF Len(s) + start < 0 THEN 0 ELSE Len(s) + start)
                ELSE start
    IN  SubSeq(s, from + 1, Len(s))

calculateMACDReversed(prices, shortPeriod, longPeriod, signalPeriod) ==
    IF Len(prices) < longPeriod THEN Null
    ELSE LET emaShort == calculateEMA(prices, shortPeriod)
             emaLong == calculateEMA(prices, longPeriod)
             alignedEmaShort == slice(emaShort, Len(emaShort) - Len(emaLong))
             macdLine == [j \in 1..Len(alignedEmaShort) |->
                             RMinus(emaLong[j], alignedEmaShort[j])]
         IN  IF Len(macdLine) < signalPeriod THEN Null
             ELSE [fn |-> "indicator", kind |-> "object",
                   values |-> macdLine,
                   signal |-> calculateEMA(macdLine, signalPeriod)]

\* values is the MACD line and signal the signal line; the histogram is
\* their difference and adds nothing
calculateMACD(prices, shortPeriod, longPeriod, signalPeriod) ==
    IF Len(prices) < longPeriod THEN Null
    ELSE LET emaShort == calculateEMA(prices, shortPeriod)
             emaLong == calculateEMA(prices, longPeriod)
             alignedEmaShort == slice(emaShort, Len(emaShort) - Len(emaLong))
             macdLine == [j \in 1..Len(alignedEmaShort) |->
                             RMinus(alignedEmaShort[j], emaLong[j])]
         IN  IF Len(macdLine) < signalPeriod THEN Null
             ELSE [fn |-> "indicator", kind |-> "object",
                   values |-> macdLine,
                   signal |-> calculateEMA(macdLine, signalPeriod)]

\* true range of every bar but the first
trueRanges(data) ==
    [j \in 1..(Len(data) - 1) |->
        LET high == Num(data[j + 1].high)
            low == Num(data[j + 1].low)
            prevClose == Num(data[j].price)
        IN  RMax(RMinus(high, low),
                 RMax(RAbs(RMinus(high, prevClose)),
                      RAbs(RMinus(low, prevClose))))]

\* Wilder smoothing of the true ranges up to index i (1-based), the values
\* so far in a sequence whose last element is the current ATR
RECURSIVE atrValues(_, _, _)
atrValues(tr, period, i) ==
    IF i <= period
    THEN <<ROver(RSum(SubSeq(tr, 1, IF Len(tr) < period THEN Len(tr) ELSE period)),
                 Num(period))>>
    ELSE LET prev == atrValues(tr, period, i - 1)
         IN  Append(prev,
                    ROver(RPlus(RTimes(prev[Len(prev)], Num(period - 1)), tr[i]),
                          Num(period)))

\* scalar variant (trend bot); a bar is [timestamp, open, high, low, close]
\* there, of which the code reads high, low and close
calculateATR(ohlcData, period) ==
    IF Len(ohlcData) < period THEN NumberOf(Num(0))
    ELSE LET tr == trueRanges(ohlcData)
             atr == atrValues(tr, period, Len(tr))
         IN  NumberOf(atr[Len(atr)])

\* sequence variant (intraday and combined bots)
calculateATRValues(data, period) ==
    IF Len(data) <= period THEN ArrayOf(<<>>)
    ELSE LET tr == trueRanges(data)
         IN  ArrayOf(atrValues(tr, period, Len(tr)))

RECURSIVE SeqsUpTo(_, _)
SeqsUpTo(S, n) ==
    IF n = 0 THEN {<<>>}
    ELSE LET shorter == SeqsUpTo(S, n - 1)
         IN  shorter \cup {Append(s, x) : s \in shorter, x \in S}

Example == <<1, 2, 3, 4, 5>>
Quotes == 0..MaxQuote
Bars == {[high |-> 1, low |-> 1, price |-> 1],
         [high |-> 2, low |-> 1, price |-> 1],
         [high |-> 3, low |-> 2, price |-> 3]}

PriceInputs ==
    [fn : {"SMA", "EMA", "RSI", "BollingerBands"},
     data : SeqsUpTo(Quotes, MaxSeries) \cup {Example},
     period : 1..MaxPeriod]

\* a MACD call: period is the long period
MACDInputs ==
    [fn : {"MACD"},
     data : SeqsUpTo(Quotes, MaxSeries) \cup {Example},
     period : 1..MaxPeriod,
     shortPeriod : 1..MaxPeriod,
     signalPeriod : 1..MaxPeriod]

BarInputs ==
    [fn : {"ATR", "ATRValues"},
     data : SeqsUpTo(Bars, MaxSeries),
     period : 1..MaxPeriod]

\* the prices of a call as numbers of the model
Series(in) == [j \in 1..Len(in.data) |-> Num(in.data[j])]

Indicator(in) ==
    CASE in.fn = "SMA" -> ArrayOf(calculateSMA(Series(in), in.period))
      [] in.fn = "EMA" -> ArrayOf(calculateEMA(Series(in), in.period))
      [] in.fn = "RSI" -> ArrayOf(calculateRSI(Series(in), in.period))
      [] in.fn = "BollingerBands" -> calculateBollingerBands(Series(in), in.period)
      [] in.fn = "MACD" -> calculateMACD(Series(in), in.shortPeriod, in.period,
                                         in.signalPeriod)
      [] in.fn = "ATR" -> calculateATR(in.data, in.period)
      [] in.fn = "ATRValues" -> calculateATRValues(in.data, in.period)

InitIndicator ==
    /\ variant = "intraday"
    /\ openTrades = <<>>
    /\ file = Absent
    /\ faults = 0
    /\ lastOp = NoOp
    /\ \/ input \in PriceInputs
       \/ input \in MACDInputs
       \/ input \in BarInputs
    /\ output = NoCall
    /\ NoBot

\* one call of an indicator function on the series of the call
CallIndicator ==
    /\ output = NoCall
    /\ output' = Indicator(input)
    /\ UNCHANGED <<storeVars, botVars, input>>

SpecIndicator == InitIndicator /\ [][CallIndicator]_vars

\* ---------------------------------------------------------------------------
\* Strategy adaptation of the combined bot.  trailingStopLoss, pnl and
\* winRate are in thousandths (0.015 is 15, 0.4 is 400); calculateWinRate
\* hands over a percentage, so that a win rate of 50 % arrives as 50000.
\* ---------------------------------------------------------------------------
strategyParameters == [trailingStopLoss |-> 15, maxConcurrentPositions |-> 5]

adaptStrategyUnclamped(sp, pnl, winRate) ==
    IF pnl < -50 /\ winRate < 400
    THEN [trailingStopLoss |-> sp.trailingStopLoss + 5,
          maxConcurrentPositions |-> sp.maxConcurrentPositions - 1]
    ELSE IF pnl > 50 /\ winRate > 600
    THEN [trailingStopLoss |-> sp.trailingStopLoss - 5,
          maxConcurrentPositions |-> sp.maxConcurrentPositions + 1]
    ELSE sp

adaptStrategy(sp, pnl, winRate) ==
    LET min(a, b) == IF a <= b THEN a ELSE b
        max(a, b) == IF a >= b THEN a ELSE b
    IN  IF pnl < -50 /\ winRate < 400
        THEN [trailingStopLoss |-> min(sp.trailingStopLoss + 5, 30),
              maxConcurrentPositions |-> max(sp.maxConcurrentPositions - 1, 1)]
        ELSE IF pnl > 50 /\ winRate > 600
        THEN [trailingStopLoss |-> max(sp.trailingStopLoss - 5, 10),
              maxConcurrentPositions |-> min(sp.maxConcurrentPositions + 1, 10)]
        ELSE sp

AdaptInputs ==
    [fn : {"adaptStrategy"},
     pnl : {-100, -51, -50, 0, 50, 51, 100},
     winRate : {0, 399, 400, 500, 600, 601, 50000}]

\* output holds the parameters of the module: as they are, and as they were
\* before the last call
InitAdapt ==
    /\ variant = "intraday"
    /\ openTrades = <<>>
    /\ file = Absent
    /\ faults = 0
    /\ lastOp = NoOp
    /\ input = [fn |-> "adaptStrategy", pnl |-> 0, winRate |-> 0]
    /\ output = [fn |-> "adaptStrategy", strategyParameters |-> strategyParameters,
                 before |-> strategyParameters, calls |-> 0]
    /\ NoBot

\* trackPerformance reports and calls adaptStrategy(pnl, winRate)
trackPerformance ==
    /\ output.fn = "adaptStrategy"
    /\ \E in \in AdaptInputs :
          /\ input' = in
          /\ output' = [fn |-> "adaptStrategy",
                        strategyParameters |->
                            adaptStrategy(output.strategyParameters, in.pnl, in.winRate),
                        before |-> output.strategyParameters,
                        calls |-> IF output.calls = 0 THEN 1 ELSE output.calls]
    /\ UNCHANGED <<storeVars, botVars>>

SpecAdapt == InitAdapt /\ [][trackPerformance]_vars

(***************************************************************************)
(* The bots: configuration, positions, market.                             *)
(***************************************************************************)
\* the trade manager module each bot imports
StoreOf(b) ==
    CASE b = "intraday" -> "intraday"
      [] b = "momentum" -> "trade"
      [] b = "solana" -> "solana"
      [] b = "meme" -> "meme"
      [] OTHER -> "trend"

OracleBots == {"intraday", "trend", "momentum"}

\* strategyParameters.maxConcurrentPositions (5, 15 and 10 in the bots)
maxConcurrentPositions == 2

\* FIXED_POSITION_SIZE and the 1000 USDC the trend/pullback bot spends
FIXED_POSITION_SIZE == 1000

\* process.env.BOT_CONFIDENCE_THRESHOLD: unset (or empty), or "0"
EnvThresholds == {<<>>, <<"0">>}

\* parseFloat(process.env.BOT_CONFIDENCE_THRESHOLD || '0.70') and '0.75'
EnvThreshold(b, env) ==
    parseFloat(IF env # <<>> THEN env
               ELSE IF b = "intraday" THEN <<"0", ".", "7", "0">>
               ELSE <<"0", ".", "7", "5">>)

DEFAULT_AI_CONFIDENCE_THRESHOLD(b) == IF b = "trend" THEN 700 ELSE 750

\* the environment of a bot: BOT_OVERRIDE_ENABLED, BOT_CONFIDENCE_THRESHOLD,
\* BOT_CLOSE_ALL_POSITIONS, TRADING_ENABLED
Configs(b) ==
    CASE b = "intraday" ->
            [override : {FALSE}, env : EnvThresholds, closeAll : {FALSE}, trading : {TRUE}]
      [] b \in {"trend", "momentum"} ->
            [override : BOOLEAN, env : EnvThresholds, closeAll : BOOLEAN, trading : {TRUE}]
      [] b = "meme" ->
            [override : {FALSE}, env : {<<>>}, closeAll : {FALSE}, trading : BOOLEAN]
      [] OTHER ->
            [override : {FALSE}, env : {<<>>}, closeAll : {FALSE}, trading : {TRUE}]

\* the threshold the cycle compares the confidence with
Threshold(b, c) ==
    IF b = "intraday" THEN EnvThreshold(b, c.env)
    ELSE IF c.override THEN EnvThreshold(b, c.env)
    ELSE DEFAULT_AI_CONFIDENCE_THRESHOLD(b)

\* a >= b of JavaScript numbers (false when either is NaN)
Geq(a, b) == a # NaN /\ b # NaN /\ a >= b

\* TRADABLE_TOKENS: address of a symbol
Address(symbol) == IF symbol = "WETH" THEN "0xC02a" ELSE "So11"

TRADABLE_TOKEN_ADDRESSES == {Address(s) : s \in Symbols}

\* the record a bot hands to addOpenTrade
NewTrade(b, id, symbol, day) ==
    CASE b = "intraday" ->
            [id |-> id, toToken |-> Address(symbol), toTokenSymbol |-> symbol,
             price |-> EntryPrice, timestamp |-> day, highWaterMark |-> EntryPrice]
      [] b = "meme" ->
            [id |-> id, toTokenAddress |-> Address(symbol), toTokenSymbol |-> symbol,
             price |-> EntryPrice, timestamp |-> day]
      [] OTHER ->
            [id |-> id, toToken |-> Address(symbol), toTokenSymbol |-> symbol,
             price |-> EntryPrice, timestamp |-> day]

\* an id source that hands out the id of the last stored record again
NewIdOfLast(trades) == IF trades = <<>> THEN 1 ELSE trades[Len(trades)].id

\* Date.now() + Math.random(), tradeResult.transaction.id: an id no stored
\* record has
NewId(trades) == CHOOSE i \in 1..(Len(trades) + 1) : ~HasId(trades, i)

\* the file a bot finds at startup: none, or one it wrote in an earlier run
\* (for the trend/pullback bot also one it wrote the day before);
\* the portfolio setup script and the rebalancer log their buys through
\* intraday_trade_manager.ts too, as records without highWaterMark
InitialFiles(b) ==
    {Absent,
     Stringify(<<NewTrade(b, 1, "WETH", 1)>>),
     Stringify(<<NewTrade(b, 1, "WETH", 1), NewTrade(b, 2, "SOL", 1)>>)}
    \cup (IF b = "intraday" THEN {Stringify(<<NewTrade("setup", 1, "WETH", 1)>>)} ELSE {})
    \cup (IF b = "trend" THEN {Stringify(<<NewTrade(b, 1, "WETH", 0)>>)} ELSE {})

\* the prices a position entered at EntryPrice is monitored at: below the
\* bot's stop, at the entry, above its take-profit (or for a new high)
Prices(b) ==
    CASE b = "intraday" -> {98, 100, 110}
      [] b = "trend" -> {100, 103, 600}
      [] b = "momentum" -> {99, 100, 101}
      [] b = "solana" -> {50, 100, 300}
      [] OTHER -> {50, 100, 1000}

\* dexscreener.getPairPrice catches its errors and answers null
PriceResults(b) ==
    (IF b = "solana" THEN {NoPrice} ELSE {Throws, NoPrice}) \cup {Quote(p) : p \in Prices(b)}

\* recall.executeTrade: returns the transaction, or throws
ExecOutcomes == {"ok", "throw"}

ClosingTrade(t, x) ==
    [kind |-> "close", symbol |-> t.toTokenSymbol, id |-> t.id, ok |-> x = "ok",
     isOpportunity |-> FALSE, hasConfidence |-> FALSE, aiConfidence |-> 0]

OpeningTrade(c, id, x) ==
    [kind |-> "open", symbol |-> c.symbol, id |-> id, ok |-> x = "ok",
     isOpportunity |-> c.isOpportunity, hasConfidence |-> c.hasConfidence,
     aiConfidence |-> c.aiConfidence]


(***************************************************************************)
(* The position store on its own: any sequence of its operations.          *)
(***************************************************************************)
InitStore ==
    /\ variant \in StoreVariants
    /\ openTrades = <<>>
    /\ file \in {Absent, Corrupt, Stringify(<<>>)}
    /\ faults = 0
    /\ lastOp = NoOp
    /\ input = NoCall
    /\ output = NoCall
    /\ NoBot

Load == \E w \in WriteOutcomes : Commit(loadOpenTrades(Current, variant, w))

Add ==
    /\ Len(openTrades) < MaxStore
    /\ \E t \in OpenTrade, w \in WriteOutcomes : Commit(addOpenTrade(Current, variant, t, w))

Remove ==
    \E i \in 1..MaxId, w \in WriteOutcomes : Commit(removeOpenTrade(Current, variant, i, w))

Update ==
    /\ variant = "intraday"
    /\ \E i \in 1..MaxId, w \in WriteOutcomes :
       \E h \in {EntryPrice + 1, EntryPrice + 2} :
          Commit(updateOpenTrade(Current, variant, i, [highWaterMark |-> h], w))

NextStore == (Load \/ Add \/ Remove \/ Update) /\ UNCHANGED <<fnVars, botVars>>

SpecStore == InitStore /\ [][NextStore]_vars

(***************************************************************************)
(* The bot processes: main, then one trading cycle after another.  A step  *)
(* is one iteration of a loop of the cycle, or the code between two loops. *)
(***************************************************************************)
\* TRADABLE_TOKENS / the market data, in the order the loops visit them
Universe == <<"WETH", "SOL">>

\* the USDC the portfolio holds when a cycle starts
Capitals(b) ==
    CASE b = "intraday" -> {0, FIXED_POSITION_SIZE, 2 * FIXED_POSITION_SIZE}
      [] b \in {"trend", "momentum"} -> {0, FIXED_POSITION_SIZE}
      [] OTHER -> {0}

\* getOverallMarketTrend() answers UPTREND or not (trend/pullback bot only)
Trends(b) == IF b = "trend" THEN BOOLEAN ELSE {FALSE}

\* whether runTradingCycle starts by fetching portfolio, market data and
\* balances, which can fail (the memecoin bots fetch nothing up front)
Fetches(b) == IF b \in OracleBots THEN {"ok", "fail"} ELSE {"ok"}

\* the day can change between two cycles (only the trend/pullback bot reads it)
Days(b, day) == IF b = "trend" /\ day < MaxDay THEN {day, day + 1} ELSE {day}

InitBot ==
    /\ bot \in Bots
    /\ cfg \in Configs(bot)
    /\ variant = StoreOf(bot)
    /\ openTrades = <<>>
    /\ file \in InitialFiles(bot)
    /\ faults = 0
    /\ lastOp = NoOp
    /\ input = NoCall
    /\ output = NoCall
    /\ pc = "main"
    /\ today = 1
    /\ snap = <<>>
    /\ idx = 0
    /\ passLog = <<>>
    /\ passState = "none"
    /\ retry = {}
    /\ cands = <<>>
    /\ capital = 0
    /\ lastExec = NoExec
    /\ cyc = NoCycle

\* a step that calls no operation of the store
Keep == Commit(Current)

\* no try/catch around the body of the cycle function
CatchesNowhere(b) == FALSE

\* the body of the cycle function is a try block whose catch logs the error
\* (the meme coin bot calls its monitoring pass after the block; that pass
\* catches per position and throws nothing)
CatchesAtTopLevel(b) == b \in Bots

\* where an exception that no handler inside a loop catches takes the
\* process: to the end of the cycle, waiting for the next tick, or out of
\* the cycle function
AfterThrow(b) == IF CatchesAtTopLevel(b) THEN "idle" ELSE "escaped"

\* main(): loadOpenTrades(), then the close-all loop if it is configured
Main ==
    /\ pc = "main"
    /\ \E w \in WriteOutcomes :
          LET st == loadOpenTrades(Current, variant, w)
          IN  /\ Commit(st)
              /\ snap' = IF cfg.closeAll THEN st.trades ELSE <<>>
    /\ pc' = IF cfg.closeAll THEN "closeAll" ELSE "idle"
    /\ idx' = 1
    /\ passState' = IF cfg.closeAll THEN "closeAll" ELSE "none"
    /\ UNCHANGED <<bot, cfg, today, passLog, retry, cands, capital, lastExec, cyc, fnVars>>

\* one iteration of the close-all loop: try { executeTrade; removeOpenTrade } catch
CloseAllStep ==
    /\ pc = "closeAll"
    /\ idx <= Len(snap)
    /\ \E x \in ExecOutcomes, w \in WriteOutcomes :
          LET t == snap[idx]
          IN  /\ IF x = "ok" THEN Commit(removeOpenTrade(Current, variant, t.id, w)) ELSE Keep
              /\ lastExec' = ClosingTrade(t, x)
              /\ passLog' = Append(passLog,
                     [quote |-> NoPrice, outcome |-> IF x = "ok" THEN "closed" ELSE "closeThrew"])
    /\ idx' = idx + 1
    /\ UNCHANGED <<bot, cfg, pc, today, snap, passState, retry, cands, capital, cyc, fnVars>>

\* the ids whose closing trade threw in the pass (or close-all loop) that
\* has ended, together with those an aborted pass left pending
Pending ==
    LET threw == {snap[i].id : i \in {j \in 1..Len(passLog) : passLog[j].outcome = "closeThrew"}}
        closed == {snap[i].id : i \in {j \in 1..Len(passLog) : passLog[j].outcome = "closed"}}
    IN  CASE passState \in {"done", "closeAll"} -> threw
          [] passState = "aborted" -> (retry \cup threw) \ closed
          [] OTHER -> retry

\* the record of the pass that has ended is dropped, but for the ids above
Forget ==
    /\ snap' = <<>>
    /\ passLog' = <<>>
    /\ passState' = "none"
    /\ retry' = Pending

\* the close-all loop is over; main goes on to the first cycle
CloseAllDone ==
    /\ pc = "closeAll"
    /\ idx > Len(snap)
    /\ Keep
    /\ pc' = "idle"
    /\ lastExec' = NoExec
    /\ Forget
    /\ UNCHANGED <<bot, cfg, today, idx, cands, capital, cyc, fnVars>>

\* monitorOpenPositions() is called: const openTrades = getOpenTrades()
BeginMonitor ==
    /\ pc' = "monitor"
    /\ snap' = getOpenTrades
    /\ idx' = 1
    /\ passLog' = <<>>
    /\ passState' = "running"
    /\ retry' = Pending

\* runTradingCycle(): the fetches before the monitoring pass.  The market
\* trend and the balances it fetches are read after the pass only; their
\* values are drawn where they are first read.
StartCycle ==
    /\ pc = "idle"
    /\ Keep
    /\ lastExec' = NoExec
    /\ cands' = <<>>
    /\ capital' = 0
    /\ cyc' = NoCycle
    /\ \E fetch \in Fetches(bot), day \in Days(bot, today) :
          /\ today' = day
          /\ IF fetch = "fail"
             THEN Forget /\ pc' = AfterThrow(bot) /\ UNCHANGED idx
             ELSE IF bot = "meme"
             THEN Forget /\ pc' = "discover" /\ UNCHANGED idx
             ELSE BeginMonitor
    /\ UNCHANGED <<bot, cfg, fnVars>>

\* the momentum bot reads token.token, which no stored record has
SkipsPosition(b, t) ==
    b = "momentum" /\ ~("token" \in DOMAIN t /\ t.token \in TRADABLE_TOKEN_ADDRESSES)

\* if (!trade.highWaterMark) trade.highWaterMark = trade.price
NoHighWaterMark(t) == ~("highWaterMark" \in DOMAIN t /\ t.highWaterMark # 0)

HighWaterMark(t) == IF NoHighWaterMark(t) THEN t.price ELSE t.highWaterMark

Max(a, b) == IF a >= b THEN a ELSE b

\* the exit condition of each bot at price p
ExitCondition(b, t, p) ==
    CASE b = "intraday" -> trailingStopHit(Max(HighWaterMark(t), p), p)
      [] b = "trend" -> dollarTakeProfitHit(t.toTokenSymbol, t.price, p)
      [] OTHER -> ExitDecision(b, t.price, p).close

\* where an exception of the price request, and of the closing trade, goes:
\* to the catch of the cycle (the pass is over), or to a catch inside the loop
PriceAbortsPass(b) == b \in {"intraday", "trend", "momentum"}

CloseAbortsPass(b) == b \in {"intraday", "momentum"}

\* one iteration of the monitoring loop, on position t with price answer q
\* and closing trade outcome x
Evaluate(b, t, q, x) ==
    IF SkipsPosition(b, t) THEN "skipped"
    ELSE IF q.kind = "throw" THEN "threw"
    ELSE IF q.kind = "none" THEN "noPrice"
    ELSE IF ~ExitCondition(b, t, q.price) THEN "held"
    ELSE IF x = "ok" THEN "closed" ELSE "closeThrew"

\* trade.highWaterMark = ...: the object in the list is changed, nothing is written
Assign(st, tradeId, updates) ==
    LET i == FindIndex(st.trades, tradeId)
    IN  IF i = 0 THEN st
        ELSE Store([st.trades EXCEPT ![i] = Merge(st.trades[i], updates)],
                   st.file, st.faults, st.op)

\* the store after the iteration
MonitorStore(b, v, t, q, x, w) ==
    LET s0 == IF b = "intraday" /\ NoHighWaterMark(t)
              THEN Assign(Current, t.id, [highWaterMark |-> t.price]) ELSE Current
        raised == b = "intraday" /\ q.kind = "price" /\ q.price > HighWaterMark(t)
        s1 == IF raised
              THEN updateOpenTrade(Assign(s0, t.id, [highWaterMark |-> q.price]), v, t.id,
                                   [highWaterMark |-> q.price], w)
              ELSE s0
    IN  IF Evaluate(b, t, q, x) = "closed" THEN removeOpenTrade(s1, v, t.id, w) ELSE s1

MonitorStep ==
    /\ pc = "monitor"
    /\ idx <= Len(snap)
    /\ \E q \in PriceResults(bot), x \in ExecOutcomes, w \in WriteOutcomes :
          LET t == snap[idx]
              out == Evaluate(bot, t, q, x)
              aborts == \/ out = "threw" /\ PriceAbortsPass(bot)
                        \/ out = "closeThrew" /\ CloseAbortsPass(bot)
          IN  /\ Commit(MonitorStore(bot, variant, t, q, x, w))
              /\ passLog' = Append(passLog, [quote |-> q, outcome |-> out])
              /\ lastExec' = IF out \in {"closed", "closeThrew"} THEN ClosingTrade(t, x)
                             ELSE NoExec
              /\ pc' = IF aborts THEN AfterThrow(bot) ELSE pc
              /\ passState' = IF aborts THEN "aborted" ELSE passState
    /\ idx' = idx + 1
    /\ UNCHANGED <<bot, cfg, today, snap, retry, cands, capital, cyc, fnVars>>

\* the loop is over: the cycle goes on to the gate, to discovery, or ends
EndMonitor ==
    /\ pc = "monitor"
    /\ idx > Len(snap)
    /\ Keep
    /\ passState' = "done"
    /\ lastExec' = NoExec
    /\ \E up \in Trends(bot) :
          /\ cyc' = [cyc EXCEPT !.uptrend = up, !.monitored = TRUE]
          /\ pc' = CASE bot \in {"intraday", "momentum"} -> "gate"
                      [] bot = "trend" -> IF up THEN "gate" ELSE "idle"
                      [] bot = "solana" -> "discover"
                      [] OTHER -> "idle"
    /\ UNCHANGED <<bot, cfg, today, snap, idx, passLog, retry, cands, capital, fnVars>>

\* getOpenTrades().length >= strategyParameters.maxConcurrentPositions
AtCapacityStrict(n) == n > maxConcurrentPositions

AtCapacity(n) == n >= maxConcurrentPositions

\* the gate between the monitoring pass and the analysis
Gate ==
    /\ pc = "gate"
    /\ Keep
    /\ lastExec' = NoExec
    /\ capital' \in Capitals(bot)
    /\ cyc' = [cyc EXCEPT !.gated = TRUE, !.gateCount = Len(getOpenTrades),
                          !.balance = capital']
    /\ pc' = IF AtCapacity(Len(getOpenTrades)) THEN "idle" ELSE "scan"
    /\ idx' = 1
    /\ Forget
    /\ UNCHANGED <<bot, cfg, today, cands, fnVars>>

\* an analysed token, a discovered pair
Candidate(symbol, eligible, isOpportunity, hasConfidence, aiConfidence) ==
    [symbol |-> symbol, eligible |-> eligible, isOpportunity |-> isOpportunity,
     hasConfidence |-> hasConfidence, aiConfidence |-> aiConfidence]

\* what the language model answers to a prompt
Scores == {<<"0">>, <<".">>, <<"0", ".", "7", "2">>, <<"0", ".", "8">>}

Answers(b) ==
    {[http |-> "non2xx", body |-> NoJson],
     [http |-> "ok", body |-> Text(<<"<score>", "0", ".", "8">>
                                 \o <<IF CloseTag(b) = "</score>" THEN "<!--/score-->"
                                       ELSE "</score>">>)]}
    \cup {[http |-> "ok", body |-> Text(<<"<score>">> \o n \o <<CloseTag(b)>>)] : n \in Scores}

\* only the trend/pullback bot asks the Execution Gateway for a price while
\* it analyses and while it opens
PricesAsked(b) == IF b = "trend" THEN PriceResults(b) ELSE {NoPrice}

\* the indicators of a coin cannot be computed (continue), or they can and
\* the opportunity predicate is false or true
Analyses == {"none", "no", "yes"}

\* whether the analysis asks the oracle about a token: the momentum bot
\* always, the others for an opportunity
AsksOracle(b, isOpportunity) == b = "momentum" \/ isOpportunity

\* whether the analysed token is kept: the trend/pullback bot keeps opportunities
KeepsToken(b, isOpportunity) == b # "trend" \/ isOpportunity

\* one iteration of the analysis loop
ScanStep ==
    /\ pc = "scan"
    /\ idx <= Len(Universe)
    /\ Keep
    /\ lastExec' = NoExec
    /\ idx' = idx + 1
    /\ \E a \in Analyses, q \in PricesAsked(bot), r \in Answers(bot) :
          LET symbol == Universe[idx]
              isOpportunity == a = "yes"
              asks == AsksOracle(bot, isOpportunity)
              result == getTradeConfidence(bot, CallerFields(bot), r.http, r.body)
              token == Candidate(symbol, TRUE, isOpportunity, asks,
                                 IF asks THEN result.confidence ELSE 0)
          IN  IF a = "none" \/ (bot = "trend" /\ q.kind = "none")
              THEN UNCHANGED <<pc, cands, cyc>>
              ELSE IF bot = "trend" /\ q.kind = "throw"
              THEN pc' = AfterThrow(bot) /\ UNCHANGED <<cands, cyc>>
              ELSE /\ pc' = pc
                   /\ cands' = IF KeepsToken(bot, isOpportunity) THEN Append(cands, token)
                               ELSE cands
                   /\ cyc' = [cyc EXCEPT !.analysed = TRUE,
                                         !.askedOracle = @ \/ asks,
                                         !.vetoed = IF isOpportunity THEN @
                                                    ELSE @ \cup {symbol}]
    /\ UNCHANGED <<bot, cfg, today, snap, passLog, passState, retry, capital, fnVars>>

\* a number in a condition: 0 and NaN are false
Truthy(n) == n # 0 /\ n # NaN

PassesAlways(b, c, t) == TRUE

\* the filter between the analysis and executeTrades
Passes(b, c, t) ==
    CASE b = "trend" ->
            IF c.override
            THEN Truthy(t.aiConfidence) /\ Geq(t.aiConfidence, EnvThreshold(b, c.env))
            ELSE /\ t.isOpportunity
                 /\ Truthy(t.aiConfidence)
                 /\ Geq(t.aiConfidence, DEFAULT_AI_CONFIDENCE_THRESHOLD(b))
      [] b = "momentum" ->
            IF c.override
            THEN t.hasConfidence /\ Geq(t.aiConfidence, EnvThreshold(b, c.env))
            ELSE /\ t.isOpportunity
                 /\ t.hasConfidence
                 /\ Geq(t.aiConfidence, DEFAULT_AI_CONFIDENCE_THRESHOLD(b))
      [] OTHER ->
            /\ t.isOpportunity
            /\ t.hasConfidence
            /\ Geq(t.aiConfidence, EnvThreshold(b, c.env))

\* executeTrades returns before its loop: too little USDC (intraday), none (momentum)
ReturnsEarly(b, usdc) ==
    CASE b = "intraday" -> usdc < FIXED_POSITION_SIZE
      [] b = "momentum" -> usdc = 0
      [] OTHER -> FALSE

\* the analysis is over: filter, then executeTrades(opportunities)
EndScan ==
    /\ pc = "scan"
    /\ idx > Len(Universe)
    /\ Keep
    /\ lastExec' = NoExec
    /\ cands' = SelectSeq(cands, LAMBDA t : Passes(bot, cfg, t))
    /\ pc' = IF ReturnsEarly(bot, capital) THEN "idle" ELSE "execute"
    /\ idx' = 1
    /\ cyc' = [cyc EXCEPT !.vetoed = {}]
    /\ UNCHANGED <<bot, cfg, today, snap, passLog, passState, retry, capital, fnVars>>

\* what DEX Screener lists: no pair, or pairs with enough liquidity (a price
\* below MAX_PRICE) or not
PairLists ==
    {<<>>}
    \cup {<<Candidate(s, e, FALSE, FALSE, 0)>> : s \in Symbols, e \in BOOLEAN}
    \cup {<<Candidate("WETH", e1, FALSE, FALSE, 0), Candidate("SOL", e2, FALSE, FALSE, 0)>> :
             e1 \in BOOLEAN, e2 \in BOOLEAN}

\* getNewPairs / getTopTrendingPairs; the meme coin bot returns from the
\* cycle when the list is empty, before its monitoring pass
Discover ==
    /\ pc = "discover"
    /\ Keep
    /\ lastExec' = NoExec
    /\ \E pairs \in PairLists :
          /\ cands' = pairs
          /\ pc' = IF bot = "meme" /\ pairs = <<>> THEN "idle" ELSE "execute"
    /\ idx' = 1
    /\ Forget
    /\ UNCHANGED <<bot, cfg, today, capital, cyc, fnVars>>

\* getOpenTrades().some(trade => trade.toTokenSymbol === opportunity.symbol)
SymbolOpen(trades, symbol) == \E i \in 1..Len(trades) : trades[i].toTokenSymbol = symbol

\* no check of the trades opened today
OpenedNever(trades, symbol, day) == FALSE

\* the trend/pullback bot: a trade for the symbol was opened today
OpenedToday(trades, symbol, day) ==
    \E i \in 1..Len(trades) : trades[i].toTokenSymbol = symbol /\ trades[i].timestamp = day

\* the Solana bot compares toToken, the meme coin manager toTokenAddress
AddressOpen(trades, field, address) ==
    \E i \in 1..Len(trades) : field \in DOMAIN trades[i] /\ trades[i][field] = address

\* the trend/pullback bot spends the price of one WETH (prices are in tenths
\* of a dollar), or 1000 USDC, and needs a balance that covers it
Funded(symbol, q, usdc) ==
    IF symbol = "WETH" THEN usdc * 10 >= q.price ELSE usdc >= FIXED_POSITION_SIZE

\* what one iteration of the loop of executeTrades decides before it submits
Entry(b, c, trades, cand, q, usdc, day) ==
    CASE b = "intraday" ->
            IF AtCapacity(Len(trades)) THEN "break"
            ELSE IF SymbolOpen(trades, cand.symbol) THEN "continue"
            ELSE IF usdc < FIXED_POSITION_SIZE THEN "continue"
            ELSE "submit"
      [] b = "momentum" ->
            IF AtCapacity(Len(trades)) THEN "break"
            ELSE IF SymbolOpen(trades, cand.symbol) THEN "continue"
            ELSE IF usdc = 0 THEN "continue"
            ELSE "submit"
      [] b = "trend" ->
            IF OpenedToday(trades, cand.symbol, day) THEN "continue"
            ELSE IF cand.symbol = "WETH" /\ q.kind = "throw" THEN "throw"
            ELSE IF cand.symbol = "WETH" /\ q.kind = "none" THEN "continue"
            ELSE IF ~Funded(cand.symbol, q, usdc) THEN "continue"
            ELSE "submit"
      [] b = "solana" ->
            IF AddressOpen(trades, "toToken", Address(cand.symbol)) THEN "continue"
            ELSE IF ~cand.eligible THEN "continue"
            ELSE "submit"
      [] OTHER ->
            IF AddressOpen(trades, "toTokenAddress", Address(cand.symbol)) THEN "continue"
            ELSE IF ~cand.eligible THEN "continue"
            ELSE IF ~c.trading THEN "continue"
            ELSE "submit"

\* the USDC amount of the opening trade, in tenths of a dollar: the price of
\* one WETH in the trend/pullback bot, calculatePositionSize(capital, 0.5) with
\* maxPositionSize 0.03 in the momentum bot, the fixed size otherwise
Amount(b, symbol, q, usdc) ==
    CASE b = "trend" /\ symbol = "WETH" -> q.price
      [] b = "momentum" -> Max(100, (usdc * 15) \div 100)
      [] OTHER -> FIXED_POSITION_SIZE * 10

\* try { executeTrade(...); addOpenTrade(...) } catch: addOpenTrade is
\* reached when executeTrade has returned
ReachesAddAlways(x) == TRUE

ReachesAdd(x) == x = "ok"

\* the cycle is over, or (meme coin bot) goes on to its monitoring pass
AfterExecute ==
    IF bot = "meme" THEN BeginMonitor
    ELSE pc' = "idle" /\ UNCHANGED <<snap, idx, passLog, passState, retry>>

\* one iteration of the loop of executeTrades / findAndExecuteNewTrades
ExecuteStep ==
    /\ pc = "execute"
    /\ idx <= Len(cands)
    /\ \E q \in PricesAsked(bot), x \in ExecOutcomes, w \in WriteOutcomes :
          LET cand == cands[idx]
              entry == Entry(bot, cfg, getOpenTrades, cand, q, capital, today)
              id == NewId(getOpenTrades)
              adds == entry = "submit" /\ ReachesAdd(x)
          IN  /\ IF adds
                 THEN Commit(addOpenTrade(Current, variant,
                                          NewTrade(bot, id, cand.symbol, today), w))
                 ELSE Keep
              /\ lastExec' = IF entry = "submit" THEN OpeningTrade(cand, id, x) ELSE NoExec
              /\ capital' = IF bot = "intraday" /\ entry = "submit" /\ x = "ok"
                            THEN capital - FIXED_POSITION_SIZE ELSE capital
              /\ cyc' = IF entry # "submit" THEN cyc
                        ELSE [cyc EXCEPT
                                !.opened = IF adds THEN @ \cup {cand.symbol} ELSE @,
                                !.filled = IF x = "ok" THEN @ \cup {cand.symbol} ELSE @,
                                !.spent = IF x = "ok"
                                          THEN @ + Amount(bot, cand.symbol, q, capital)
                                          ELSE @,
                                !.openThrew = IF x = "ok" THEN @ ELSE @ \cup {cand.symbol}]
              /\ IF entry \in {"break", "throw"}
                 THEN /\ pc' = IF entry = "throw" THEN AfterThrow(bot) ELSE "idle"
                      /\ UNCHANGED <<snap, idx, passLog, passState, retry>>
                 ELSE IF idx = Len(cands)
                 THEN AfterExecute
                 ELSE idx' = idx + 1 /\ UNCHANGED <<pc, snap, passLog, passState, retry>>
    /\ UNCHANGED <<bot, cfg, today, cands, fnVars>>

\* executeTrades was handed no opportunity
ExecuteNone ==
    /\ pc = "execute"
    /\ cands = <<>>
    /\ Keep
    /\ lastExec' = NoExec
    /\ AfterExecute
    /\ UNCHANGED <<bot, cfg, today, cands, capital, cyc, fnVars>>


\* ---------------------------------------------------------------------------
\* executeTrades of the neutral/downtrend bot, from the call in
\* runTradingCycle to its return.  The bot keeps the store of the
\* trend/pullback bot's kind and differs from that bot in the size of a
\* position and in a price it asks for between the trade and the record.
\* ---------------------------------------------------------------------------
\* tokenPositionSizes: one token for WETH (prices are in tenths of a dollar),
\* dollars for the others
tokenPositionSizes == [WETH |-> 1, SOL |-> 1500]

InitNeutral ==
    /\ bot = "neutral"
    /\ cfg = [override |-> FALSE, env |-> <<>>, closeAll |-> FALSE, trading |-> TRUE]
    /\ variant = StoreOf(bot)
    /\ openTrades \in {<<>>} \cup {<<NewTrade(bot, 1, "WETH", day)>> : day \in 0..1}
    /\ file = Stringify(openTrades)
    /\ faults = 0
    /\ lastOp = NoOp
    /\ input = NoCall
    /\ output = NoCall
    /\ pc = "execute"
    /\ today = 1
    /\ snap = <<>>
    /\ idx = 1
    /\ passLog = <<>>
    /\ passState = "none"
    /\ retry = {}
    /\ cands \in {<<Candidate(Universe[i], TRUE, TRUE, TRUE, 800)>> : i \in 1..2}
                 \cup {<<Candidate(Universe[i], TRUE, TRUE, TRUE, 800),
                          Candidate(Universe[j], TRUE, TRUE, TRUE, 800)>> : i, j \in 1..2}
    /\ capital \in {0, FIXED_POSITION_SIZE, 2 * FIXED_POSITION_SIZE}
    /\ lastExec = NoExec
    /\ cyc = [NoCycle EXCEPT !.balance = capital]

\* one iteration of the loop of executeTrades: q is the price of WETH asked
\* for before the trade, p the price of the token asked for after it
ExecuteNeutralStep ==
    /\ bot = "neutral"
    /\ pc = "execute"
    /\ idx <= Len(cands)
    /\ \E q \in PriceResults("trend"), p \in PriceResults("trend"),
          x \in ExecOutcomes, w \in WriteOutcomes :
          LET cand == cands[idx]
              weth == cand.symbol = "WETH"
              funded == IF weth
                        THEN capital * 10 >= q.price * tokenPositionSizes[cand.symbol]
                        ELSE capital >= tokenPositionSizes[cand.symbol]
              entry == IF OpenedToday(getOpenTrades, cand.symbol, today) THEN "continue"
                       ELSE IF weth /\ q.kind = "throw" THEN "throw"
                       ELSE IF weth /\ q.kind = "none" THEN "continue"
                       ELSE IF ~funded THEN "continue"
                       ELSE "submit"
              id == NewId(getOpenTrades)
              adds == entry = "submit" /\ x = "ok" /\ p.kind = "price"
          IN  /\ IF adds
                 THEN Commit(addOpenTrade(Current, variant,
                                 [NewTrade(bot, id, cand.symbol, today)
                                     EXCEPT !.price = p.price], w))
                 ELSE Keep
              /\ lastExec' = IF entry = "submit" THEN OpeningTrade(cand, id, x) ELSE NoExec
              /\ cyc' = IF entry # "submit" THEN cyc
                        ELSE [cyc EXCEPT
                                !.opened = IF adds THEN @ \cup {cand.symbol} ELSE @,
                                !.filled = IF x = "ok" THEN @ \cup {cand.symbol} ELSE @,
                                !.spent = IF x = "ok"
                                          THEN @ + (IF weth THEN q.price
                                                    ELSE 10 * tokenPositionSizes[cand.symbol])
                                          ELSE @,
                                !.openThrew = IF x = "ok" THEN @ ELSE @ \cup {cand.symbol}]
              /\ IF entry = "throw" \/ idx = Len(cands)
                 THEN pc' = "idle" /\ idx' = idx
                 ELSE pc' = pc /\ idx' = idx + 1
    /\ UNCHANGED <<bot, cfg, today, snap, passLog, passState, retry, cands, capital, fnVars>>

SpecNeutral == InitNeutral /\ [][ExecuteNeutralStep]_vars

\* ---------------------------------------------------------------------------
\* Overlapping invocations of runTradingCycle of the intraday bot.  main()
\* hands runTradingCycle to setInterval; an invocation runs until it awaits,
\* and whatever is ready then runs: a tick of the timer, or another
\* invocation whose awaited call has returned.  In this specification pc,
\* idx, snap, cands and capital hold one value per invocation, and the timer
\* fires MaxInvocations times: an invocation is "off" before its tick and
\* "done" after its return.
\* ---------------------------------------------------------------------------
MaxInvocations == 2

Invocations == 1..MaxInvocations

SkipsTickWhenBusy(p) == \E j \in Invocations : p[j] \notin {"off", "done"}

\* runTradingCycle keeps no in-progress flag: no tick is skipped
SkipsTick(p) == FALSE

InitOverlap ==
    /\ bot = "intraday"
    /\ cfg = [override |-> FALSE, env |-> <<>>, closeAll |-> FALSE, trading |-> TRUE]
    /\ variant = StoreOf(bot)
    /\ openTrades \in {<<>>, <<NewTrade(bot, 1, "WETH", 0)>>}
    /\ file = Stringify(openTrades)
    /\ faults = 0
    /\ lastOp = NoOp
    /\ input = NoCall
    /\ output = NoCall
    /\ pc = [i \in Invocations |-> "off"]
    /\ today = 1
    /\ snap = [i \in Invocations |-> <<>>]
    /\ idx = [i \in Invocations |-> 0]
    /\ passLog = <<>>
    /\ passState = "none"
    /\ retry = {}
    /\ cands = [i \in Invocations |-> <<>>]
    /\ capital = [i \in Invocations |-> 0]
    /\ lastExec = NoExec
    /\ cyc = NoCycle

\* the invocation is over: its locals are gone
Return(i) ==
    /\ pc' = [pc EXCEPT ![i] = "done"]
    /\ idx' = [idx EXCEPT ![i] = 0]
    /\ snap' = [snap EXCEPT ![i] = <<>>]
    /\ cands' = [cands EXCEPT ![i] = <<>>]
    /\ capital' = [capital EXCEPT ![i] = 0]

\* the timer fires: runTradingCycle starts and awaits its three fetches
Tick(i) ==
    /\ pc[i] = "off"
    /\ ~SkipsTick(pc)
    /\ Keep
    /\ lastExec' = NoExec
    /\ pc' = [pc EXCEPT ![i] = "fetch"]
    /\ UNCHANGED <<bot, cfg, today, snap, idx, passLog, passState, retry, cands,
                   capital, cyc, fnVars>>

\* the fetches return: the cycle is skipped, or monitorOpenPositions begins
Fetched(i) ==
    /\ pc[i] = "fetch"
    /\ Keep
    /\ lastExec' = NoExec
    /\ \E fetch \in Fetches(bot) :
          IF fetch = "fail"
          THEN Return(i)
          ELSE /\ pc' = [pc EXCEPT ![i] = "monitor"]
               /\ snap' = [snap EXCEPT ![i] = getOpenTrades]
               /\ idx' = [idx EXCEPT ![i] = 1]
               /\ UNCHANGED <<cands, capital>>
    /\ UNCHANGED <<bot, cfg, today, passLog, passState, retry, cyc, fnVars>>

\* one iteration of the loop of monitorOpenPositions
MonitorOverlap(i) ==
    /\ pc[i] = "monitor"
    /\ idx[i] <= Len(snap[i])
    /\ \E q \in PriceResults(bot), x \in ExecOutcomes, w \in WriteOutcomes :
          LET t == snap[i][idx[i]]
              out == Evaluate(bot, t, q, x)
              aborts == \/ out = "threw" /\ PriceAbortsPass(bot)
                        \/ out = "closeThrew" /\ CloseAbortsPass(bot)
          IN  /\ Commit(MonitorStore(bot, variant, t, q, x, w))
              /\ lastExec' = IF out \in {"closed", "closeThrew"} THEN ClosingTrade(t, x)
                             ELSE NoExec
              /\ IF aborts
                 THEN Return(i)
                 ELSE /\ idx' = [idx EXCEPT ![i] = @ + 1]
                      /\ UNCHANGED <<pc, snap, cands, capital>>
    /\ UNCHANGED <<bot, cfg, today, passLog, passState, retry, cyc, fnVars>>

\* the pass is over: the count is compared with the limit and
\* analyzeIntradayOpportunities is awaited
GateOverlap(i) ==
    /\ pc[i] = "monitor"
    /\ idx[i] > Len(snap[i])
    /\ Keep
    /\ lastExec' = NoExec
    /\ IF AtCapacity(Len(getOpenTrades))
       THEN Return(i)
       ELSE /\ pc' = [pc EXCEPT ![i] = "analyse"]
            /\ UNCHANGED <<idx, snap, cands, capital>>
    /\ UNCHANGED <<bot, cfg, today, passLog, passState, retry, cyc, fnVars>>

\* the loop of executeTrades from opportunity k on, up to its next await:
\* the opportunity it submits, or 0 when it ends without one
RECURSIVE Advance(_, _, _, _)
Advance(trades, cs, k, usdc) ==
    IF k > Len(cs) THEN 0
    ELSE LET entry == Entry("intraday", cfg, trades, cs[k], NoPrice, usdc, today)
         IN  IF entry = "break" THEN 0
             ELSE IF entry = "submit" THEN k
             ELSE Advance(trades, cs, k + 1, usdc)

\* executeTrades goes on from opportunity k of the list cs with usdc left
Proceed(i, cs, k, usdc) ==
    LET n == Advance(getOpenTrades, cs, k, usdc)
    IN  IF n = 0
        THEN Return(i)
        ELSE /\ pc' = [pc EXCEPT ![i] = "trade"]
             /\ idx' = [idx EXCEPT ![i] = n]
             /\ cands' = [cands EXCEPT ![i] = cs]
             /\ capital' = [capital EXCEPT ![i] = usdc]
             /\ UNCHANGED snap

\* the analysis returns its opportunities and executeTrades starts with the
\* USDC of the portfolio fetched at the start of the cycle
Analysed(i) ==
    /\ pc[i] = "analyse"
    /\ Keep
    /\ lastExec' = NoExec
    /\ \E cs \in {<<>>} \cup {<<Candidate(Universe[k], TRUE, TRUE, TRUE, 800)>> : k \in 1..2}
                  \cup {<<Candidate(Universe[1], TRUE, TRUE, TRUE, 800),
                           Candidate(Universe[2], TRUE, TRUE, TRUE, 800)>>},
          usdc \in Capitals(bot) :
          IF ReturnsEarly(bot, usdc) THEN Return(i) ELSE Proceed(i, cs, 1, usdc)
    /\ UNCHANGED <<bot, cfg, today, passLog, passState, retry, cyc, fnVars>>

\* recall.executeTrade returns or throws: the capital is reduced and the
\* record added, or the error is logged and the loop goes on
Resolve(i) ==
    /\ pc[i] = "trade"
    /\ \E x \in ExecOutcomes, w \in WriteOutcomes :
          LET cand == cands[i][idx[i]]
              id == NewId(getOpenTrades)
          IN  /\ lastExec' = OpeningTrade(cand, id, x)
              /\ IF x = "ok"
                 THEN /\ Commit(addOpenTrade(Current, variant,
                                             NewTrade(bot, id, cand.symbol, today), w))
                      /\ pc' = [pc EXCEPT ![i] = "execute"]
                      /\ idx' = [idx EXCEPT ![i] = @ + 1]
                      /\ capital' = [capital EXCEPT ![i] = @ - FIXED_POSITION_SIZE]
                      /\ UNCHANGED <<snap, cands>>
                 ELSE /\ Keep
                      /\ Proceed(i, cands[i], idx[i] + 1, capital[i])
    /\ UNCHANGED <<bot, cfg, today, passLog, passState, retry, cyc, fnVars>>

\* addOpenTrade has returned: the loop goes on with the next opportunity
Submit(i) ==
    /\ pc[i] = "execute"
    /\ Keep
    /\ lastExec' = NoExec
    /\ Proceed(i, cands[i], idx[i], capital[i])
    /\ UNCHANGED <<bot, cfg, today, passLog, passState, retry, cyc, fnVars>>

NextOverlap ==
    \E i \in Invocations :
        \/ Tick(i)
        \/ Fetched(i)
        \/ MonitorOverlap(i)
        \/ GateOverlap(i)
        \/ Analysed(i)
        \/ Resolve(i)
        \/ Submit(i)

SpecOverlap == InitOverlap /\ [][NextOverlap]_vars

Next ==
    \/ Main
    \/ CloseAllStep
    \/ CloseAllDone
    \/ StartCycle
    \/ MonitorStep
    \/ EndMonitor
    \/ Gate
    \/ ScanStep
    \/ EndScan
    \/ Discover
    \/ ExecuteStep
    \/ ExecuteNone

Spec == InitBot /\ [][Next]_vars

(***************************************************************************)
(* C1: position store round trip.  For a store holding no record with id   *)
(* p.id, after addOpenTrade(p) the list of getOpenTrades() contains        *)
(* exactly one record equal to p; after removeOpenTrade(id) the list       *)
(* holds no record with that id and every other record is still there in   *)
(* its original order.                                                     *)
(***************************************************************************)
C1_RoundTrip ==
    /\ (lastOp.op = "add" /\ ~HasId(lastOp.pre, lastOp.id))
          => Count(getOpenTrades, lastOp.trade) = 1
    /\ lastOp.op = "remove"
          => /\ ~HasId(getOpenTrades, lastOp.id)
             /\ getOpenTrades = SelectSeq(lastOp.pre, LAMBDA t : t.id # lastOp.id)

\* A record was added to a non-empty store and then removed again from among others.
C1_Witness ==
    /\ lastOp.op = "remove"
    /\ HasId(lastOp.pre, lastOp.id)
    /\ Len(lastOp.pre) >= 3
    /\ Len(getOpenTrades) >= 1

(***************************************************************************)
(* C2: a record is added to the store only after executeTrade has returned *)
(* for that opening trade; when executeTrade throws for a candidate, the   *)
(* store is left as it was and no record for the candidate is added in     *)
(* that cycle.                                                             *)
(***************************************************************************)
C2_AddAfterOpen ==
    /\ lastOp.op = "add"
          => /\ lastExec.kind = "open"
             /\ lastExec.ok
             /\ lastExec.id = lastOp.id
             /\ lastExec.symbol = lastOp.trade.toTokenSymbol
    /\ (lastExec.kind = "open" /\ ~lastExec.ok) => lastOp = NoOp
    /\ cyc.opened \cap cyc.openThrew = {}

\* A record is added after a successful opening trade, in a cycle in which
\* the opening trade of another candidate threw.
C2_Witness ==
    /\ lastOp.op = "add"
    /\ lastExec.kind = "open"
    /\ lastExec.ok
    /\ cyc.openThrew # {}
    /\ HasId(getOpenTrades, lastExec.id)

(***************************************************************************)
(* C3: a monitoring pass or the close-all loop removes a position only     *)
(* after its closing executeTrade has returned; when the closing trade     *)
(* throws, the position stays in the store, and the next monitoring pass   *)
(* that runs to its end evaluates it again.                                *)
(***************************************************************************)
C3_CloseBeforeRemove ==
    /\ (lastOp.op = "remove" /\ Len(getOpenTrades) < Len(lastOp.pre))
          => /\ lastExec.kind = "close"
             /\ lastExec.ok
             /\ lastExec.id = lastOp.id
    /\ (lastExec.kind = "close" /\ ~lastExec.ok) => HasId(getOpenTrades, lastExec.id)
    /\ passState \in {"running", "done"} => \A id \in retry : HasId(snap, id)
    /\ passState = "done"
          => \A i \in 1..Len(snap) : snap[i].id \in retry => passLog[i].outcome # "skipped"

(***************************************************************************)
(* C4: in a monitoring pass, every position the pass comes to whose price  *)
(* can be fetched and meets the exit condition of the bot has a closing    *)
(* trade submitted, and is out of the store within the pass when that      *)
(* trade succeeds.                                                         *)
(***************************************************************************)
C4_ExitsSubmitted ==
    passState \in {"running", "done", "aborted"}
       => \A i \in 1..Len(passLog) :
             (/\ passLog[i].quote.kind = "price"
              /\ ExitCondition(bot, snap[i], passLog[i].quote.price))
                => /\ passLog[i].outcome \in {"closed", "closeThrew"}
                   /\ passLog[i].outcome = "closed" => ~HasId(getOpenTrades, snap[i].id)

(***************************************************************************)
(* C5: with pnl = (current - entry) / entry, the take-profit fires exactly *)
(* when pnl >= takeProfit and the stop-loss exactly when pnl <= -stopLoss, *)
(* both inclusive; a closing trade is submitted exactly when one of them   *)
(* fires.  Entry 100, current 115, takeProfit 0.15 fires the take-profit;  *)
(* entry 100, current 94, stopLoss 0.05 fires the stop-loss.               *)
(***************************************************************************)
C5_ExitThresholds ==
    (output # NoCall /\ input.fn = "exit") =>
        LET e == input.entryPrice
            c == input.currentPrice
            tp == takeProfit(input.bot)
            sl == stopLoss(input.bot)
        IN  /\ output.takeProfitHit <=> (c * BasisPoints >= e * (BasisPoints + tp))
            /\ output.stopLossHit <=> (c * BasisPoints <= e * (BasisPoints - sl))
            /\ output.close <=> (output.takeProfitHit \/ output.stopLossHit)
            /\ (input.bot = "simple" /\ e = 100 /\ c = 115) => output.takeProfitHit
            /\ (input.bot = "simple" /\ e = 100 /\ c = 94) => output.stopLossHit
            /\ (input.bot = "simple" /\ e = 100 /\ c > 95 /\ c < 115) => ~output.close

\* the take-profit boundary of the example has been evaluated
C5_Witness ==
    /\ output # NoCall /\ input.fn = "exit"
    /\ input.bot = "simple" /\ input.entryPrice = 100 /\ input.currentPrice = 115
    /\ output.takeProfitHit /\ output.close /\ ~output.stopLossHit

(***************************************************************************)
(* C6: an opening trade is submitted only for a candidate that has a score *)
(* and whose score is at least the configured threshold; with the override *)
(* disabled, only for a candidate whose opportunity predicate is true.     *)
(***************************************************************************)
C6_ThresholdFilter ==
    (lastExec.kind = "open" /\ bot \in OracleBots)
       => /\ lastExec.hasConfidence
          /\ lastExec.aiConfidence # NaN
          /\ lastExec.aiConfidence >= Threshold(bot, cfg)
          /\ ~cfg.override => lastExec.isOpportunity

\* With the override disabled, an opportunity scored 0.72 is opened by a
\* bot whose threshold is 0.70.
C6_Witness ==
    /\ lastExec.kind = "open"
    /\ bot \in OracleBots
    /\ ~cfg.override
    /\ cfg.env = <<>>
    /\ lastExec.aiConfidence = 720
    /\ Threshold(bot, cfg) = 700

(***************************************************************************)
(* C7: when the store holds maxConcurrentPositions positions or more after *)
(* the monitoring pass, the cycle analyses nothing, asks the oracle        *)
(* nothing and submits no opening trade.                                   *)
(***************************************************************************)
C7_MaxPositionsGate ==
    (cyc.gated /\ cyc.gateCount >= maxConcurrentPositions)
       => /\ ~cyc.analysed
          /\ ~cyc.askedOracle
          /\ cyc.opened = {}
          /\ cyc.openThrew = {}
          /\ lastExec.kind # "open"
          /\ pc = "idle"

\* The gate has found the store full and the cycle has ended.
C7_Witness ==
    /\ cyc.gated
    /\ cyc.gateCount >= maxConcurrentPositions
    /\ Len(getOpenTrades) >= maxConcurrentPositions
    /\ pc = "idle"

(***************************************************************************)
(* C8: a candidate whose confidence is 0 never leads to an opening trade,  *)
(* whatever the configured threshold (0 included) and in either mode.      *)
(***************************************************************************)
C8_ZeroNeverOpens ==
    (lastExec.kind = "open" /\ bot \in OracleBots) => lastExec.aiConfidence # 0

(***************************************************************************)
(* C9: the oracle call never throws to its caller; a non-2xx answer, a     *)
(* network error or a body without a usable response string each make it   *)
(* return confidence 0.                                                    *)
(***************************************************************************)
C9_OracleNeverThrows ==
    output # NoCall =>
        /\ ~output.threw
        /\ (input.http # "ok" \/ input.body.kind # "text") => output.confidence = 0

(***************************************************************************)
(* C10: every confidence function parses the response delimiter first      *)
(* (<score>X</score>), then by the sentence "confidence score of **X**",   *)
(* and yields 0 when neither is there; "<score>0.42</score> looks risky"   *)
(* gives 0.42 with the reason "looks risky".                               *)
(***************************************************************************)
DelimiterFirst(text) ==
    LET m1 == Match(text, "<score>", "</score>")
        m2 == Match(text, "confidence score of **", "**")
    IN  IF m1 # <<0, 0>> THEN parseFloat(Group(text, m1))
        ELSE IF m2 # <<0, 0>> THEN parseFloat(Group(text, m2))
        ELSE 0

LooksRisky == <<"<score>", "0", ".", "4", "2", "</score>", " ", "looks risky">>

C10_ParsingOrder ==
    (output # NoCall /\ input.http = "ok" /\ input.body.kind = "text" /\ ~output.threw) =>
        /\ output.confidence = DelimiterFirst(input.body.text)
        /\ input.body.text = LooksRisky =>
              /\ output.confidence = 420
              /\ output.hasReason /\ output.reason = <<"looks risky">>

C12_OnlyStoreOpsChange ==
    [][lastOp'.op = "none" => openTrades' = openTrades]_vars

(***************************************************************************)
(* C13: the file mirrors the in-memory collection.  Provided no file write *)
(* has failed, between two store operations of a running bot the content   *)
(* of the position file is that of the in-memory collection (no file       *)
(* standing for the empty collection), after any add, update, remove and   *)
(* monitoring step.                                                        *)
(***************************************************************************)
C13_FileMirrorsMemory ==
    (faults = 0 /\ pc \notin {"main", "off"})
       => \/ file = Stringify(getOpenTrades)
          \/ file = Absent /\ getOpenTrades = <<>>

(***************************************************************************)
(* C14: when the file write fails during addOpenTrade(p) (the file does    *)
(* not hold the new list afterwards), addOpenTrade fails as a whole, the   *)
(* error reaching its caller, and p is in the in-memory collection         *)
(* nevertheless.                                                           *)
(***************************************************************************)
C14_AddWriteFailurePropagates ==
    (lastOp.op = "add" /\ file # Stringify(getOpenTrades))
       => /\ lastOp.threw
          /\ getOpenTrades = Append(lastOp.pre, lastOp.trade)

(***************************************************************************)
(* C15: updateOpenTrade(id, updates) replaces the record whose id matches  *)
(* by the shallow merge of the old record and the updates (a field of the  *)
(* updates wins, every other field of the old record stays), leaves every  *)
(* other record and the order as they were, and writes the file; when no   *)
(* record has the id, the collection is unchanged and no write is          *)
(* attempted.                                                              *)
(***************************************************************************)
C15_UpdateMerges ==
    [][lastOp'.op = "update" =>
         LET id == lastOp'.id
             updates == lastOp'.trade
             hits == {i \in 1..Len(openTrades) : openTrades[i].id = id}
         IN  IF hits = {}
             THEN openTrades' = openTrades /\ file' = file /\ faults' = faults
             ELSE LET i == CHOOSE h \in hits : \A g \in hits : h <= g
                  IN  /\ Len(openTrades') = Len(openTrades)
                      /\ \A j \in 1..Len(openTrades) : j # i => openTrades'[j] = openTrades[j]
                      /\ DOMAIN openTrades'[i] = DOMAIN openTrades[i] \cup DOMAIN updates
                      /\ \A k \in DOMAIN updates : openTrades'[i][k] = updates[k]
                      /\ \A k \in DOMAIN openTrades[i] \ DOMAIN updates :
                            openTrades'[i][k] = openTrades[i][k]
                      /\ file' \in {WriteFile(file, openTrades', w) : w \in WriteOutcomes}
                      /\ faults' = faults => file' = Stringify(openTrades')
      ]_vars

\* The second of three records had its highWaterMark overwritten and the
\* file was written.
C15_Witness ==
    /\ lastOp.op = "update"
    /\ Len(lastOp.pre) = 3
    /\ lastOp.id = lastOp.pre[2].id
    /\ lastOp.pre[1].id # lastOp.id
    /\ "highWaterMark" \in DOMAIN lastOp.pre[2]
    /\ lastOp.pre[2].highWaterMark # lastOp.trade.highWaterMark
    /\ getOpenTrades[2].highWaterMark = lastOp.trade.highWaterMark
    /\ getOpenTrades[2].toTokenSymbol = lastOp.pre[2].toTokenSymbol
    /\ file = Stringify(getOpenTrades)

(***************************************************************************)
(* C16: removeOpenTrade(id) with an id no stored record has is a no-op:    *)
(* the in-memory collection and the content of the file are both left as   *)
(* they were, in every store variant and every reachable state (an earlier *)
(* failed write included).                                                 *)
(***************************************************************************)
C16_RemoveUnknownIsNoOp ==
    [][(lastOp'.op = "remove" /\ ~HasId(openTrades, lastOp'.id))
          => openTrades' = openTrades /\ file' = file]_vars

(***************************************************************************)
(* C17: when loadOpenTrades finds no backing file, it sets the in-memory   *)
(* collection to empty and writes the empty collection back, so that the   *)
(* file exists afterwards when that write succeeds.                        *)
(***************************************************************************)
C17_LoadCreatesMissingFile ==
    [][(lastOp'.op = "load" /\ file = Absent)
          => /\ openTrades' = <<>>
             /\ faults' = faults => file' = Stringify(<<>>)]_vars

(***************************************************************************)
(* C18: when loadOpenTrades hits a read or parse failure other than file   *)
(* not found, it does not throw and the in-memory collection is empty      *)
(* afterwards, whatever it held before the call.                           *)
(***************************************************************************)
C18_LoadFailureEmpties ==
    [][(lastOp'.op = "load" /\ file = Corrupt)
          => ~lastOp'.threw /\ openTrades' = <<>>]_vars

(***************************************************************************)
(* C19: loadOpenTrades is idempotent: called twice in succession, with no  *)
(* add, update or remove in between, it leaves the same in-memory          *)
(* collection after the second call as after the first, whether the        *)
(* backing file is absent, valid or unreadable.                            *)
(***************************************************************************)
C19_LoadIdempotent ==
    [][(lastOp.op = "load" /\ lastOp'.op = "load") => openTrades' = openTrades]_vars

\* A load has found the list as the load before it left it: a list of two
\* records that the unreadable file of a memecoin manager does not replace.
C19_Witness ==
    /\ lastOp.op = "load"
    /\ lastOp.pre = getOpenTrades
    /\ Len(getOpenTrades) = 2
    /\ file = Corrupt
    /\ ~ResetsOnReadError(variant)

(***************************************************************************)
(* C20: within one cycle the steps run in the order monitor, scan,         *)
(* execute: no opportunity scan (analysis or discovery) and no opening     *)
(* trade of a cycle happens before the monitoring pass of that cycle over  *)
(* the open positions has finished.                                        *)
(***************************************************************************)
C20_MonitorScanExecute ==
    /\ pc \in {"gate", "scan", "discover", "execute"} => cyc.monitored
    /\ lastExec.kind = "open" => cyc.monitored
    /\ (cyc.analysed \/ cyc.opened # {} \/ cyc.openThrew # {}) => cyc.monitored

(***************************************************************************)
(* C21: a failed trade execution, opening or closing, for one candidate or *)
(* position does not abort the cycle: the position is not opened or        *)
(* closed, and the loop goes on to every remaining candidate and every     *)
(* remaining open position of the cycle.                                   *)
(***************************************************************************)
C21_FailedTradeGoesOn ==
    /\ (lastExec.kind = "close" /\ ~lastExec.ok)
          => /\ HasId(getOpenTrades, lastExec.id)
             /\ passState # "aborted"
             /\ pc \in {"monitor", "closeAll"}
    /\ (lastExec.kind = "open" /\ ~lastExec.ok)
          => /\ ~HasId(getOpenTrades, lastExec.id)
             /\ \/ pc = "execute" /\ idx <= Len(cands)
                \/ pc = "idle" /\ idx = Len(cands)
                \/ bot = "meme" /\ pc = "monitor"

(***************************************************************************)
(* C22: a failure of the price fetch (timeout, non-2xx answer) for one     *)
(* open position during a monitoring pass is recovered locally: it does    *)
(* not leave the pass, and every other open position is still evaluated    *)
(* in the same pass.                                                       *)
(***************************************************************************)
C22_PriceFailureRecovered ==
    \A i \in 1..Len(passLog) :
        passLog[i].outcome = "threw"
           => /\ passState # "aborted"
              /\ pc = "monitor" \/ Len(passLog) = Len(snap)

(***************************************************************************)
(* C23: an exception raised inside a cycle and not handled inside a loop   *)
(* is caught at the top level of the cycle: it never escapes the cycle     *)
(* function, the cycle ends early, and the next timer tick starts a new    *)
(* cycle from scratch.                                                     *)
(***************************************************************************)
C23_CycleCatchesAll ==
    [][/\ pc' # "escaped"
       /\ (passState' = "aborted" /\ passState # "aborted") => pc' = "idle"
       /\ (pc = "idle" /\ pc' # "idle")
             => /\ cyc' = NoCycle
                /\ cands' = <<>>
                /\ lastExec' = NoExec
                /\ passState' \in {"none", "running"}]_vars

\* An exception has ended a monitoring pass over two positions at the first
\* of them, and the process waits for the next tick.
C23_Witness ==
    /\ passState = "aborted"
    /\ pc = "idle"
    /\ Len(snap) = 2
    /\ Len(passLog) = 1

(***************************************************************************)
(* C24: under the one-entry-per-symbol-per-day policy of the               *)
(* trend/pullback bot, after any sequence of non-overlapping cycles the    *)
(* store never holds two open positions with the same toTokenSymbol whose  *)
(* open timestamps fall on the same calendar day.                          *)
(***************************************************************************)
C24_OnePerSymbolPerDay ==
    bot = "trend"
       => \A i, j \in 1..Len(getOpenTrades) :
             (/\ getOpenTrades[i].toTokenSymbol = getOpenTrades[j].toTokenSymbol
              /\ getOpenTrades[i].timestamp = getOpenTrades[j].timestamp) => i = j

\* The bot has opened a symbol it already holds from the day before.
C24_Witness ==
    /\ bot = "trend"
    /\ lastOp.op = "add"
    /\ \E i, j \in 1..Len(getOpenTrades) :
          /\ getOpenTrades[i].toTokenSymbol = getOpenTrades[j].toTokenSymbol
          /\ getOpenTrades[i].timestamp < getOpenTrades[j].timestamp
          /\ getOpenTrades[j].timestamp = today

(***************************************************************************)
(* C25: in override mode, a tradable instrument whose opportunity          *)
(* predicate is false but whose Confidence Oracle score is at least the    *)
(* override threshold is accepted as a final opportunity and handed to     *)
(* trade execution: each instrument the analysis vetoed has a score when   *)
(* the analysis ends, and with a score at or above the threshold it is     *)
(* among the opportunities that the filter lets through.                   *)
(***************************************************************************)
C25_OverrideAcceptsVetoed ==
    [][(pc = "scan" /\ idx > Len(Universe) /\ cfg.override)
          => \A s \in cyc.vetoed :
                \E i \in 1..Len(cands) :
                   /\ cands[i].symbol = s
                   /\ cands[i].hasConfidence
                   /\ Geq(cands[i].aiConfidence, EnvThreshold(bot, cfg.env))
                         => \E j \in 1..Len(cands') : cands'[j] = cands[i]]_vars

(***************************************************************************)
(* C26: for every position the trailing-stop monitoring pass handles,      *)
(* highWaterMark is set to the entry price when it is absent, never        *)
(* decreases, and after the pass has handled the position equals the       *)
(* maximum of its value before (the entry price at first) and the price    *)
(* observed, in memory and, no write having failed, in the persisted       *)
(* record.                                                                 *)
(***************************************************************************)
C26_HighWaterMark ==
    (bot = "intraday" /\ passState \in {"running", "done", "aborted"})
       => \A i \in 1..Len(passLog) :
             LET t == snap[i]
                 q == passLog[i].quote
                 expected == IF q.kind = "price" THEN Max(HighWaterMark(t), q.price)
                             ELSE HighWaterMark(t)
                 HasMark(r) == "highWaterMark" \in DOMAIN r /\ r.highWaterMark = expected
             IN  /\ expected >= t.price
                 /\ \A k \in 1..Len(getOpenTrades) :
                       getOpenTrades[k].id = t.id => HasMark(getOpenTrades[k])
                 /\ (faults = 0 /\ file.kind = "json")
                       => \A k \in 1..Len(file.data) :
                             file.data[k].id = t.id => HasMark(Parse(file)[k])

\* C27: insufficient-data guard.  A call of SMA or EMA on a series shorter
\* than the period returns the empty sequence, a call of RSI on a series no
\* longer than the period returns the empty sequence, a call of MACD on a
\* series shorter than the long period returns null and a call of
\* BollingerBands on a series shorter than the period returns null: no value
\* is computed from fewer points than the function requires.
C27_InsufficientDataGuard ==
    (output # NoCall /\ input.fn \in {"SMA", "EMA", "RSI", "MACD", "BollingerBands"})
        => /\ (input.fn \in {"SMA", "EMA"} /\ Len(input.data) < input.period)
                 => output = ArrayOf(<<>>)
           /\ (input.fn = "RSI" /\ Len(input.data) <= input.period)
                 => output = ArrayOf(<<>>)
           /\ (input.fn \in {"MACD", "BollingerBands"}
                 /\ Len(input.data) < input.period)
                 => output = Null

\* an EMA call on a non-empty series one point short of the period has
\* returned the empty sequence
C27_Witness ==
    /\ input.fn = "EMA"
    /\ Len(input.data) >= 1
    /\ Len(input.data) = input.period - 1
    /\ output = ArrayOf(<<>>)

\* C28: ATR returns its no-result value whenever fewer than period + 1 bars
\* are supplied: for every input length from 0 to the period inclusive the
\* scalar variant returns 0 and the sequence variant returns the empty
\* sequence.
C28_ATRNoResult ==
    (output # NoCall /\ input.fn \in {"ATR", "ATRValues"}
        /\ Len(input.data) <= input.period)
        => output = IF input.fn = "ATR" THEN NumberOf(Num(0)) ELSE ArrayOf(<<>>)

\* C29: SMA(series, period) returns a sequence of length
\* max(0, len(series) - period + 1) whose element j is the arithmetic mean of
\* the period inputs starting at j; SMA of 1, 2, 3, 4, 5 with period 3 is
\* 2, 3, 4.
C29_SMA ==
    (output # NoCall /\ input.fn = "SMA")
        => LET n == Len(input.data) - input.period + 1
           IN  /\ output.kind = "array"
               /\ Len(output.values) = IF n > 0 THEN n ELSE 0
               /\ \A j \in 1..Len(output.values) :
                     RTimes(output.values[j], Num(input.period))
                        = RSum(SubSeq(Series(input), j, j + input.period - 1))
               /\ (input.data = Example /\ input.period = 3)
                     => output.values = <<Num(2), Num(3), Num(4)>>

\* the SMA of 1, 2, 3, 4, 5 with period 3 has been computed
C29_Witness ==
    /\ input.fn = "SMA"
    /\ input.data = Example
    /\ input.period = 3
    /\ output # NoCall
    /\ Len(output.values) = 3

\* C30: for a series at least as long as the period, EMA(series, period)
\* returns as many values as there are prices, the first being the first
\* price and every later one price[i] * k + ema[i-1] * (1 - k) with
\* k = 2 / (period + 1); every value lies between the least and the greatest
\* of the prices seen so far.  (Exact arithmetic: the rounding of the
\* doubles of the code is not part of the statement checked.)
C30_EMA ==
    (output # NoCall /\ input.fn = "EMA" /\ Len(input.data) >= input.period)
        => LET prices == Series(input)
               ema == output.values
               k == ROver(Num(2), Num(input.period + 1))
           IN  /\ Len(ema) = Len(prices)
               /\ ema[1] = prices[1]
               /\ \A i \in 2..Len(ema) :
                     ema[i] = RPlus(RTimes(prices[i], k),
                                    RTimes(ema[i - 1], RMinus(Num(1), k)))
               /\ \A i \in 1..Len(ema) :
                     /\ \E j \in 1..i : RLeq(prices[j], ema[i])
                     /\ \E j \in 1..i : RLeq(ema[i], prices[j])

\* an EMA with a period above 1 over a series that is not constant has been
\* computed, its last value strictly between two of the prices
C30_Witness ==
    /\ input.fn = "EMA"
    /\ input.period > 1
    /\ Len(input.data) > input.period
    /\ output # NoCall
    /\ Len(output.values) = Len(input.data)
    /\ output.values[Len(output.values)] # Num(input.data[Len(input.data)])
    /\ output.values[Len(output.values)] # Num(input.data[1])

\* C31: a MACD call returns null exactly when the series is shorter than the
\* long period or the MACD line is shorter than the signal period; otherwise
\* the MACD line and the signal line have the same length, element i of the
\* MACD line is the short EMA minus the long EMA of the same price, and the
\* signal line is the EMA of the MACD line over the signal period.
C31_MACD ==
    (output # NoCall /\ input.fn = "MACD")
        => LET prices == Series(input)
               emaShort == calculateEMA(prices, input.shortPeriod)
               emaLong == calculateEMA(prices, input.period)
               macdLen == IF Len(emaShort) < Len(emaLong)
                          THEN Len(emaShort) ELSE Len(emaLong)
           IN  /\ (output = Null)
                     <=> (Len(prices) < input.period \/ macdLen < input.signalPeriod)
               /\ (output # Null)
                     => /\ Len(output.values) = Len(output.signal)
                        /\ Len(output.values) = Len(prices)
                        /\ \A i \in 1..Len(output.values) :
                              output.values[i] = RMinus(emaShort[i], emaLong[i])
                        /\ output.signal
                              = calculateEMA(output.values, input.signalPeriod)

\* a MACD call with a short period below the long one has returned a line
\* that is not zero throughout
C31_Witness ==
    /\ input.fn = "MACD"
    /\ input.shortPeriod < input.period
    /\ output # NoCall
    /\ output # Null
    /\ Len(output.values) > input.period
    /\ output.values[Len(output.values)] # Num(0)
    /\ output.signal[Len(output.signal)] # output.values[Len(output.values)]

\* C32: RSI is 100 when the average loss is 0: a call of RSI on a series
\* whose changes contain no loss returns only values equal to 100.
C32_RSINoLoss ==
    (output # NoCall /\ input.fn = "RSI" /\ Len(input.data) > input.period
        /\ \A j \in 1..(Len(input.data) - 1) : input.data[j] <= input.data[j + 1])
        => \A i \in 1..Len(output.values) : output.values[i] = Num(100)

\* C33: a call of RSI on a series of non-negative prices longer than the
\* period returns len(series) - period values, every one of them in the
\* closed interval from 0 to 100.
C33_RSIBounded ==
    (output # NoCall /\ input.fn = "RSI" /\ Len(input.data) > input.period)
        => /\ Len(output.values) = Len(input.data) - input.period
           /\ \A i \in 1..Len(output.values) :
                 /\ RLeq(Num(0), output.values[i])
                 /\ RLeq(output.values[i], Num(100))

\* an RSI call has returned at least two values, one of them strictly
\* inside the interval
C33_Witness ==
    /\ input.fn = "RSI"
    /\ output # NoCall
    /\ Len(output.values) >= 2
    /\ \E i \in 1..Len(output.values) :
          /\ output.values[i] # Num(0)
          /\ ~RLeq(Num(99), output.values[i])

\* C39 as stated: in a MACD call that computes a line, the short-period EMA
\* is strictly longer than the long-period EMA, so that the alignment drops
\* at least one leading element of the short-period EMA.
C39_ShortEMALonger ==
    (output # NoCall /\ input.fn = "MACD" /\ output # Null)
        => LET emaShort == calculateEMA(Series(input), input.shortPeriod)
               emaLong == calculateEMA(Series(input), input.period)
           IN  /\ Len(emaShort) > Len(emaLong)
               /\ Len(slice(emaShort, Len(emaShort) - Len(emaLong)))
                     < Len(emaShort)

\* C39 amended: in a MACD call that computes a line, the short-period EMA and
\* the long-period EMA both have the length of the price series, so that the
\* alignment drops no element of the short-period EMA.
C39_EMAsSameLength ==
    (output # NoCall /\ input.fn = "MACD" /\ output # Null)
        => LET emaShort == calculateEMA(Series(input), input.shortPeriod)
               emaLong == calculateEMA(Series(input), input.period)
           IN  /\ Len(emaShort) = Len(input.data)
               /\ Len(emaLong) = Len(input.data)
               /\ slice(emaShort, Len(emaShort) - Len(emaLong)) = emaShort
               /\ Len(output.values) = Len(input.data)

\* a MACD call with a short period below the long one has computed a line
\* over more prices than the long period
C39_Witness ==
    /\ input.fn = "MACD"
    /\ input.shortPeriod < input.period
    /\ Len(input.data) > input.period
    /\ output # NoCall
    /\ output # Null
    /\ Len(output.values) = Len(input.data)

\* C40: in the combined bot, after any sequence of adaptStrategy calls from
\* the initial parameters, trailingStopLoss is within 0.01 and 0.03 and
\* maxConcurrentPositions within 1 and 10; a call whose pnl and winRate match
\* neither the poor-performance rule nor the strong-performance rule leaves
\* both parameters as they were.
C40_AdaptStaysInRange ==
    output.fn = "adaptStrategy"
        => /\ output.strategyParameters.trailingStopLoss \in 10..30
           /\ output.strategyParameters.maxConcurrentPositions \in 1..10
           /\ (output.calls > 0
                 /\ ~(input.pnl < -50 /\ input.winRate < 400)
                 /\ ~(input.pnl > 50 /\ input.winRate > 600))
                 => output.strategyParameters = output.before

\* adaptStrategy has just been held at the upper clamp of the stop and the
\* lower clamp of the positions by a poor-performance call
C40_Witness ==
    /\ output.fn = "adaptStrategy"
    /\ output.calls > 0
    /\ input.pnl < -50 /\ input.winRate < 400
    /\ output.before = [trailingStopLoss |-> 30, maxConcurrentPositions |-> 1]
    /\ output.strategyParameters = output.before

\* C34: when a cycle has ended, every opening trade that executeTrade
\* reported as successful in it has had its position record added to the
\* store in memory.
C34_FilledIsRecorded ==
    pc = "idle" => cyc.filled \subseteq cyc.opened

C37_WithinMaxPositions ==
    (bot \in OracleBots /\ lastOp.op = "add")
        => Len(getOpenTrades) <= maxConcurrentPositions

\* C35: cycle invocations are not serialized: whatever the other invocations
\* are doing, suspended at an awaited call or not, a tick of the timer starts
\* the next invocation of runTradingCycle; no flag makes the tick skip or wait.
C35_TickAlwaysStarts == \A i \in Invocations : pc[i] = "off" => ENABLED Tick(i)

\* an invocation is suspended at recall.executeTrade, a later tick has started
\* another, and that one has run up to its own recall.executeTrade
C35_Witness ==
    \E i, j \in Invocations : i # j /\ pc[i] = "trade" /\ pc[j] = "trade"

\* C36: in the intraday bot, after any sequence of trading cycles, overlapping
\* ones included, the store never holds two open positions with the same
\* toTokenSymbol.
C36_OneTradePerSymbol ==
    \A a, b \in 1..Len(getOpenTrades) :
        a # b => getOpenTrades[a].toTokenSymbol # getOpenTrades[b].toTokenSymbol

============================================================================
